---- MODULE Spec2Model ----
(***************************************************************************)
(* Verification model of platform-core-go:                                 *)
(*   - internal/httpx: ExponentialBackoffDelay, SleepContext, Retry        *)
(*   - cloudflare: Client.Do (request pipeline with retries)               *)
(*                                                                         *)
(* Durations are counted in ticks of 100 ms (TicksPerSecond ticks to the   *)
(* second); time.Duration is an int64 count of nanoseconds, so the int64   *)
(* range is carried as its quotient (MaxDurationTicksDiv64).  Jitter       *)
(* samples are counted in millionths (JitterScale).                        *)
(***************************************************************************)
EXTENDS Integers, Sequences, FiniteSets, TLC

VARIABLES
    goarch,         \* the build's architecture: decides float64 -> int64 on overflow
    boPc,           \* backoff calculator harness: "ready" | "done"
    boIn,           \* its inputs
    boOut,          \* its outputs
    retryPc,        \* httpx.Retry: "start" | "call" | "sleep" | "done"
    retryCfg,       \* the RetryConfig the caller passed
    retryConfig,    \* config := cfg.withDefaults()
    retryAttempt,   \* the loop variable attempt
    retryCalls,     \* the errors operation returned, one per invocation
    retrySlept,     \* the delays config.Sleep was called with
    retrySamples,   \* the values config.RandomFloat() returned
    retrySleepErr,  \* what the last config.Sleep call returned
    retryRet,       \* what Retry returned
    retryCtxDone,   \* whether ctx is cancelled
    cfOpt,          \* cloudflare.New: the arguments of WithRetries
    cfCfg,          \* Client.cfg as New leaves it
    cfToken,        \* the token New was called with, kept as Client.token
    doArgs,         \* the call's arguments: endpoint, zone name, request body
    doPayload,      \* payload: the request body as serialized before the loop
    doPc,           \* the call: "send" | "sleep" | "done"; "noClient" after
                    \* a New that returned an error
    doApi,          \* "Do" | "DoWithOptions" | "ListZones" | "ZoneIDByName"
    doRetryUnsafe,  \* whether WithRetryUnsafeMethods() was passed
    doMethod,       \* the HTTP method of the call
    doOutNil,       \* whether the caller passed out == nil
    doAttempt,      \* the loop variable attempt
    doRequests,     \* what each c.cfg.HTTPClient.Do(req) came back with
    doSlept,        \* the delays SleepContext was called with
    doSamples,      \* the rand.Float64() values drawn (0 where none was)
    doSleepErr,     \* what the last SleepContext call returned
    doRet,          \* what the call returned
    doRetDetail,    \* HTTPStatusError.Body and the text of an API error
    doOut,          \* the caller's target: whether written, and with what
    doCtxDone,      \* whether ctx is cancelled
    ccCfg,          \* two concurrent calls: the cfg of the Client they share
    ccCalls,        \* two concurrent calls: the locals of each call of Do
    scopePc,        \* Scope.PathPrefix harness: "ready" | "done"
    scopeIn,        \* how the Scope is built: constructor, kind, ID text
    scope,          \* the Scope value
    scopeOut,       \* what PathPrefix returned: prefix and error
    vaultNewIn,     \* vault.New: the address and token it was called with
    vaultClient,    \* vault.New: the Client's address and token, and the error
    vaultStore,     \* the server: the "data" field kept under each URL path
    vaultWritten,   \* the credentials of the last write served at each URL path
    vaultCall,      \* the last WriteKVv2 / ReadKVv2 call: arguments,
                    \* requests sent, response and what it returned
    accIn,          \* AccessService.Do: the scope and endpoint it is given
    slPc,           \* SleepContext: "idle" | "call" | "select" | "parked" | "done"
    slDelay,        \* SleepContext: the delay it is given, in ticks
    slNow,          \* ticks elapsed since time.NewTimer(delay)
    slCtxDone,      \* ctx is cancelled
    slCancelAt,     \* the tick at which ctx was cancelled, -1 while it is not
    slTimer,        \* the timer: "none" | "running" | "fired" | "stopped"
    slWoken,        \* the case that woke the parked select: "none" | "ctx" | "timer"
    slRet           \* what SleepContext returned

backoffVars == <<boPc, boIn, boOut>>
retryVars == <<retryPc, retryCfg, retryConfig, retryAttempt, retryCalls,
               retrySlept, retrySamples, retrySleepErr, retryRet, retryCtxDone>>
doVars == <<cfOpt, cfCfg, cfToken, doArgs, doPayload, doPc, doApi, doRetryUnsafe, doMethod, doOutNil,
            doAttempt, doRequests, doSlept, doSamples, doSleepErr, doRet,
            doRetDetail, doOut, doCtxDone>>
concVars == <<ccCfg, ccCalls>>
scopeVars == <<scopePc, scopeIn, scope, scopeOut>>
vaultVars == <<vaultNewIn, vaultClient, vaultStore, vaultWritten, vaultCall>>
accVars == <<accIn>>
sleepVars == <<slPc, slDelay, slNow, slCtxDone, slCancelAt, slTimer, slWoken,
               slRet>>
moreVars == <<concVars, scopeVars, vaultVars, accVars, sleepVars>>
vars == <<goarch, backoffVars, retryVars, doVars, moreVars>>

-----------------------------------------------------------------------------
(* Bounds of the model *)

MaxRetriesInput == 2
MaxBackoffAttempt == 36
MaxClientRetries == 2
MaxTotalPages == 2
MaxScopeIDLen == 2

(* Program constants *)

TicksPerSecond == 10
defaultMaxRetries == 3
defaultBaseDelay == 1 * TicksPerSecond
defaultMaxDelay == 30 * TicksPerSecond
maxJitterFractionInv == 10
JitterScale == 1000000
maxJitterValue == 999999

\* (2^63 - 1) ns is 92233720368 whole ticks; this is that number \div 2^6.
MaxDurationTicksDiv64 == 1441151880
\* Stand-ins for time.Duration(math.MaxInt64) and time.Duration(math.MinInt64):
\* above, resp. below, every duration the model otherwise handles.
MaxDuration == 1000000000
MinDuration == -MaxDuration

GoArchs == {"amd64", "arm64"}

-----------------------------------------------------------------------------
(* Error values.  id tells two errors of the same kind apart. *)

Nil == [kind |-> "nil", id |-> 0]
Canceled == [kind |-> "canceled", id |-> 0]
ErrOf(kind, id) == [kind |-> kind, id |-> id]

-----------------------------------------------------------------------------
(* internal/httpx: ExponentialBackoffDelay *)

\* Whether float64(baseDelay) * 2^attempt lies outside int64 nanoseconds:
\* b * 2^a > 92233720368 ticks, decided without forming the product.
DurationOverflows(b, a) ==
    /\ a >= 6
    /\ IF a - 6 > 30 THEN b > 0 ELSE b > MaxDurationTicksDiv64 \div (2 ^ (a - 6))

\* The value of a float64 -> int64 conversion whose operand is out of range is
\* implementation-dependent: amd64 yields MinInt64, arm64 saturates.
FloatToInt64Overflow == IF goarch = "amd64" THEN MinDuration ELSE MaxDuration

RECURSIVE ScaledPow(_, _, _)
\* b * 2^a when that is at most m, and some value above m otherwise (the code
\* only compares the product with maxDelay before capping it).
ScaledPow(b, a, m) ==
    IF b > m THEN b
    ELSE IF a = 0 THEN b
    ELSE ScaledPow(2 * b, a - 1, m)

\* time.Duration(float64(baseDelay) * math.Pow(2, float64(attempt)))
DurationOfBackoff(b, a, m) ==
    IF DurationOverflows(b, a) THEN FloatToInt64Overflow ELSE ScaledPow(b, a, m)

\* time.Duration(float64(delay) * maxJitterFraction * jitterValue), truncated
JitterOf(delay, jv) ==
    IF delay = MinDuration
    THEN (IF jv = 0 THEN 0 ELSE -1)
    ELSE (delay * jv) \div (maxJitterFractionInv * JitterScale)

\* delay + jitter in int64: MinInt64 plus a negative jitter wraps around.
DurationAdd(d, j) == IF d = MinDuration /\ j < 0 THEN MaxDuration ELSE d + j

ExponentialBackoffDelay(attempt, baseDelay, maxDelay, enableJitter, jitterValue) ==
    LET a == IF attempt < 0 THEN 0 ELSE attempt
        b == IF baseDelay <= 0 THEN defaultBaseDelay ELSE baseDelay
        m == IF maxDelay <= 0 THEN defaultMaxDelay ELSE maxDelay
        converted == DurationOfBackoff(b, a, m)
        delay == IF converted > m THEN m ELSE converted
        jLow == IF jitterValue < 0 THEN 0 ELSE jitterValue
        jv == IF jLow > maxJitterValue THEN maxJitterValue ELSE jLow
    IN  IF ~enableJitter THEN delay ELSE DurationAdd(delay, JitterOf(delay, jv))

-----------------------------------------------------------------------------
(* internal/httpx: SleepContext *)

\* The error SleepContext returns: nil at once for delay <= 0, ctx.Err() when
\* ctx is done before the timer fires, nil otherwise.
SleepContext(ctxDone, delay) ==
    IF delay <= 0 THEN Nil
    ELSE IF ctxDone THEN Canceled
    ELSE Nil

-----------------------------------------------------------------------------
(* internal/httpx: RetryConfig.withDefaults and Retry *)

withDefaults(c) ==
    LET m0 == IF c.MaxRetries < 0 THEN 0 ELSE c.MaxRetries
        m1 == IF m0 = 0 THEN defaultMaxRetries ELSE m0
    IN  [MaxRetries |-> m1,
         BaseDelay |-> IF c.BaseDelay <= 0 THEN defaultBaseDelay ELSE c.BaseDelay,
         MaxDelay |-> IF c.MaxDelay <= 0 THEN defaultMaxDelay ELSE c.MaxDelay,
         EnableJitter |-> c.EnableJitter]

\* The predicate the tests pass: errors.Is(err, errTransient)
shouldRetry(err) == err.kind = "transient"

\* Mutant of RetryStops: the predicate is not consulted.
RetryStopsIgnoringPredicate(err, attempt, config) == attempt >= config.MaxRetries

\* if !shouldRetry(err) || attempt >= config.MaxRetries { return err }
RetryStops(err, attempt, config) ==
    ~shouldRetry(err) \/ attempt >= config.MaxRetries

\* Mutant of RetryDelay: the delay of the next attempt.
RetryDelayOffByOne(attempt, config, jv) ==
    ExponentialBackoffDelay(attempt + 1, config.BaseDelay, config.MaxDelay,
                            config.EnableJitter, jv)

RetryDelay(attempt, config, jv) ==
    ExponentialBackoffDelay(attempt, config.BaseDelay, config.MaxDelay,
                            config.EnableJitter, jv)

\* Mutant of RetrySleepFailed: a sleep error is dropped.
RetrySleepFailedNever(sleepErr) == FALSE

\* if sleepErr := config.Sleep(ctx, delay); sleepErr != nil { return sleepErr }
RetrySleepFailed(sleepErr) == sleepErr # Nil

JitterSamples == {-500000, 0, 500000, 999999, 1500000}

RetryConfigs ==
    [MaxRetries : (-1) .. MaxRetriesInput,
     BaseDelay : {0, 10, 25},
     MaxDelay : {0, 30},
     EnableJitter : BOOLEAN]

WhiteSpace == {" ", "\t"}

RECURSIVE TrimLeft(_)
TrimLeft(text) ==
    IF Len(text) > 0 /\ text[1] \in WhiteSpace THEN TrimLeft(Tail(text))
    ELSE text

RECURSIVE TrimRight(_)
TrimRight(text) ==
    IF Len(text) > 0 /\ text[Len(text)] \in WhiteSpace
    THEN TrimRight(SubSeq(text, 1, Len(text) - 1))
    ELSE text

\* strings.TrimSpace
TrimSpace(text) == TrimRight(TrimLeft(text))

RECURSIVE TextOf(_)
\* The string a sequence of characters spells.
TextOf(text) == IF Len(text) = 0 THEN "" ELSE text[1] \o TextOf(Tail(text))

\* No concurrent calls are under way.
ConcIdle ==
    /\ ccCfg = [MaxRetries |-> 0, RetryBaseDelay |-> 0, RetryMaxDelay |-> 0]
    /\ ccCalls = <<>>

\* No Scope is being evaluated.
ScopeIdle ==
    /\ scopePc = "idle"
    /\ scopeIn = [ctor |-> "literal", kind |-> "", id |-> <<>>]
    /\ scope = [Kind |-> "", ID |-> <<>>]
    /\ scopeOut = [prefix |-> "", err |-> Nil]

\* No map[string]any is passed or returned.
NoMap == [go |-> "none", entries |-> {}]

\* No vault call has been made.
NoVaultCall ==
    [op |-> "none", mount |-> <<>>, path |-> <<>>, credentials |-> NoMap,
     requests |-> <<>>, served |-> FALSE, status |-> 0, ret |-> Nil,
     data |-> NoMap]

\* No vault Client exists.
VaultIdle ==
    /\ vaultNewIn = [address |-> <<>>, token |-> <<>>]
    /\ vaultClient = [address |-> "", token |-> "", err |-> Nil, built |-> FALSE]
    /\ vaultStore = <<>>
    /\ vaultWritten = <<>>
    /\ vaultCall = NoVaultCall

\* AccessService.Do is not called.
AccessIdle == accIn = [scope |-> [Kind |-> "", ID |-> <<>>], endpoint |-> <<>>]

\* SleepContext is not called on its own.
SleepIdle ==
    /\ slPc = "idle"
    /\ slDelay = 0
    /\ slNow = 0
    /\ slCtxDone = FALSE
    /\ slCancelAt = -1
    /\ slTimer = "none"
    /\ slWoken = "none"
    /\ slRet = Nil

MoreIdle == ConcIdle /\ ScopeIdle /\ VaultIdle /\ AccessIdle /\ SleepIdle

RetryIdle ==
    /\ retryPc = "idle"
    /\ retryCfg = [MaxRetries |-> 0, BaseDelay |-> 0, MaxDelay |-> 0,
                   EnableJitter |-> FALSE]
    /\ retryConfig = retryCfg
    /\ retryAttempt = 0
    /\ retryCalls = <<>>
    /\ retrySlept = <<>>
    /\ retrySamples = <<>>
    /\ retrySleepErr = Nil
    /\ retryRet = Nil
    /\ retryCtxDone = FALSE

BackoffIdle ==
    /\ boPc = "idle"
    /\ boIn = [attempt |-> 0, baseDelay |-> 0, maxDelay |-> 0, jitterValue |-> 0]
    /\ boOut = [plain |-> 0, next |-> 0, jittered |-> 0]

\* What an error carries beside its kind: the body of an HTTPStatusError
\* (named by the request it answered) and the text of an API error.
NoDetail == [body |-> 0, msg |-> ""]

\* The caller's target before json.Unmarshal(env.Result, out) stores into it.
Untouched == [written |-> FALSE, result |-> <<>>]

DoIdle ==
    /\ cfOpt = [maxRetries |-> 0, baseDelay |-> 0, maxDelay |-> 0]
    /\ cfCfg = [MaxRetries |-> 0, RetryBaseDelay |-> 0, RetryMaxDelay |-> 0]
    /\ cfToken = <<>>
    /\ doArgs = [endpoint |-> "/zones", name |-> <<>>, body |-> "none"]
    /\ doPayload = ""
    /\ doPc = "idle"
    /\ doApi = "Do"
    /\ doRetryUnsafe = FALSE
    /\ doMethod = "GET"
    /\ doOutNil = FALSE
    /\ doAttempt = 0
    /\ doRequests = <<>>
    /\ doSlept = <<>>
    /\ doSamples = <<>>
    /\ doSleepErr = Nil
    /\ doRet = Nil
    /\ doRetDetail = NoDetail
    /\ doOut = Untouched
    /\ doCtxDone = FALSE

RetryInit ==
    /\ goarch \in GoArchs
    /\ BackoffIdle
    /\ DoIdle
    /\ MoreIdle
    /\ retryPc = "start"
    /\ retryCfg \in RetryConfigs
    /\ retryConfig = retryCfg
    /\ retryAttempt = 0
    /\ retryCalls = <<>>
    /\ retrySlept = <<>>
    /\ retrySamples = <<>>
    /\ retrySleepErr = Nil
    /\ retryRet = Nil
    /\ retryCtxDone = FALSE

\* config := cfg.withDefaults(); attempt := 0
RetryStart ==
    /\ retryPc = "start"
    /\ retryConfig' = withDefaults(retryCfg)
    /\ retryAttempt' = 0
    /\ retryPc' = "call"
    /\ UNCHANGED <<moreVars, doVars, goarch, backoffVars, retryCfg, retryCalls, retrySlept,
                   retrySamples, retrySleepErr, retryRet, retryCtxDone>>

\* err := operation(ctx), then the loop body up to the call of config.Sleep
RetryOperation ==
    /\ retryPc = "call"
    /\ \E kind \in {"nil", "transient", "permanent"} :
         LET err == IF kind = "nil" THEN Nil
                    ELSE ErrOf(kind, Len(retryCalls) + 1)
         IN  /\ retryCalls' = Append(retryCalls, err)
             /\ IF err = Nil
                THEN /\ retryRet' = Nil
                     /\ retryPc' = "done"
                     /\ UNCHANGED <<retrySlept, retrySamples>>
                ELSE IF RetryStops(err, retryAttempt, retryConfig)
                THEN /\ retryRet' = err
                     /\ retryPc' = "done"
                     /\ UNCHANGED <<retrySlept, retrySamples>>
                ELSE \E jv \in (IF retryConfig.EnableJitter
                                THEN JitterSamples ELSE {0}) :
                     /\ retrySamples' = Append(retrySamples, jv)
                     /\ retrySlept' =
                          Append(retrySlept,
                                 RetryDelay(retryAttempt, retryConfig, jv))
                     /\ retryPc' = "sleep"
                     /\ UNCHANGED retryRet
    /\ UNCHANGED <<moreVars, doVars, goarch, backoffVars, retryCfg, retryConfig, retryAttempt,
                   retrySleepErr, retryCtxDone>>

\* config.Sleep(ctx, delay) returns; the loop ends or goes to the next attempt
RetrySleep ==
    /\ retryPc = "sleep"
    /\ LET sleepErr == SleepContext(retryCtxDone, retrySlept[Len(retrySlept)])
       IN  /\ retrySleepErr' = sleepErr
           /\ IF RetrySleepFailed(sleepErr)
              THEN /\ retryRet' = sleepErr
                   /\ retryPc' = "done"
                   /\ UNCHANGED retryAttempt
              ELSE /\ retryAttempt' = retryAttempt + 1
                   /\ retryPc' = "call"
                   /\ UNCHANGED retryRet
    /\ UNCHANGED <<moreVars, doVars, goarch, backoffVars, retryCfg, retryConfig, retryCalls,
                   retrySlept, retrySamples, retryCtxDone>>

\* The caller cancels ctx while Retry runs.
RetryCancel ==
    /\ retryPc \in {"call", "sleep"}
    /\ ~retryCtxDone
    /\ retryCtxDone' = TRUE
    /\ UNCHANGED <<moreVars, doVars, goarch, backoffVars, retryPc, retryCfg, retryConfig,
                   retryAttempt, retryCalls, retrySlept, retrySamples,
                   retrySleepErr, retryRet>>

RetryNext ==
    \/ RetryStart
    \/ RetryOperation
    \/ RetrySleep
    \/ RetryCancel

SpecRetry == RetryInit /\ [][RetryNext]_vars

-----------------------------------------------------------------------------
(* Harness of the pure function ExponentialBackoffDelay *)

BackoffInputs ==
    [attempt : (-1) .. MaxBackoffAttempt,
     baseDelay : {0, 10, 25, 400},
     maxDelay : {0, 30, 300},
     jitterValue : JitterSamples]

BackoffInit ==
    /\ goarch \in GoArchs
    /\ RetryIdle
    /\ DoIdle
    /\ MoreIdle
    /\ boPc = "ready"
    /\ boIn \in BackoffInputs
    /\ boOut = [plain |-> 0, next |-> 0, jittered |-> 0]

BackoffCompute ==
    /\ boPc = "ready"
    /\ boOut' =
         [plain |-> ExponentialBackoffDelay(boIn.attempt, boIn.baseDelay,
                        boIn.maxDelay, FALSE, boIn.jitterValue),
          next |-> ExponentialBackoffDelay(boIn.attempt + 1, boIn.baseDelay,
                        boIn.maxDelay, FALSE, boIn.jitterValue),
          jittered |-> ExponentialBackoffDelay(boIn.attempt, boIn.baseDelay,
                        boIn.maxDelay, TRUE, boIn.jitterValue)]
    /\ boPc' = "done"
    /\ UNCHANGED <<moreVars, goarch, boIn, retryVars, doVars>>

BackoffNext == BackoffCompute

SpecBackoff == BackoffInit /\ [][BackoffNext]_vars

-----------------------------------------------------------------------------
(* cloudflare: New, Client.Do and its helpers *)

cfDefaultMaxRetries == 3
cfDefaultRetryBaseDelay == 1 * TicksPerSecond
cfDefaultRetryMaxDelay == 30 * TicksPerSecond

\* Mutant of NewConfig: a retry count of 0 is replaced by the default too.
NewConfigZeroToDefault(opt) ==
    [MaxRetries |-> IF opt.maxRetries <= 0 THEN cfDefaultMaxRetries
                    ELSE opt.maxRetries,
     RetryBaseDelay |-> IF opt.baseDelay <= 0 THEN cfDefaultRetryBaseDelay
                        ELSE opt.baseDelay,
     RetryMaxDelay |-> IF opt.maxDelay <= 0 THEN cfDefaultRetryMaxDelay
                       ELSE opt.maxDelay]

\* New: defaultConfig(), then WithRetries(maxRetries, baseDelay, maxDelay),
\* then the normalisation of cfg.
NewConfig(opt) ==
    [MaxRetries |-> IF opt.maxRetries < 0 THEN 0 ELSE opt.maxRetries,
     RetryBaseDelay |-> IF opt.baseDelay <= 0 THEN cfDefaultRetryBaseDelay
                        ELSE opt.baseDelay,
     RetryMaxDelay |-> IF opt.maxDelay <= 0 THEN cfDefaultRetryMaxDelay
                       ELSE opt.maxDelay]

\* New's test of the token: the error it returns, Nil when it builds a Client.
\* The Client keeps the token as given.
NewTokenError(token) ==
    IF TrimSpace(token) = <<>> THEN ErrOf("tokenRequired", 0) ELSE Nil

defaultBaseURL == "https://api.cloudflare.com/client/v4"

\* Client.buildURL: params is nil or holds `name`
buildURL(endpoint, name) ==
    defaultBaseURL \o endpoint
        \o (IF Len(name) = 0 THEN "" ELSE "?name=" \o TextOf(name))

\* json.Marshal(requestBody) when requestBody != nil; "" is the nil payload
MarshalRequestBody(requestBody) ==
    IF requestBody = "none" THEN "" ELSE "{\"k\":\"v\"}"

\* Mutant of ReadBody: one reader is shared by the attempts, so that it is
\* drained after the first.
ReadBodyOfSharedReader(payload, attempt) ==
    IF attempt = 0 THEN payload ELSE ""

\* bytes.NewReader(payload), made anew in each newRequest: what the
\* transport reads from it on this attempt
ReadBody(payload, attempt) == payload

\* Client.newRequest, with the body the transport reads on this attempt
newRequest(token, method, targetURL, payload, attempt) ==
    [method |-> method, url |-> targetURL,
     authorization |-> "Bearer " \o TextOf(token),
     contentType |-> "application/json",
     body |-> ReadBody(payload, attempt)]

\* Mutant of shouldRetryStatus: the 5xx range is left out.
shouldRetryStatusWithout5xx(statusCode) ==
    statusCode = 408 \/ statusCode = 429

shouldRetryStatus(statusCode) ==
    \/ statusCode = 408
    \/ statusCode = 429
    \/ (statusCode >= 500 /\ statusCode <= 599)

\* A Retry-After header: absent, integer seconds, an HTTP date n seconds from
\* now, or text that is neither.
NoHeader == [form |-> "absent", n |-> 0]
HeaderOf(form, n) == [form |-> form, n |-> n]

\* Mutant of parseRetryAfter: integer seconds <= 0 are taken as unparseable.
parseRetryAfterRejectsNonPositive(value) ==
    IF value.form = "absent" THEN <<0, FALSE>>
    ELSE IF value.form = "seconds"
    THEN (IF value.n <= 0 THEN <<0, FALSE>>
          ELSE <<value.n * TicksPerSecond, TRUE>>)
    ELSE IF value.form = "date"
    THEN (IF value.n * TicksPerSecond < 0 THEN <<0, TRUE>>
          ELSE <<value.n * TicksPerSecond, TRUE>>)
    ELSE <<0, FALSE>>

\* parseRetryAfter: <<delay, ok>>
parseRetryAfter(value) ==
    IF value.form = "absent" THEN <<0, FALSE>>
    ELSE IF value.form = "seconds"
    THEN (IF value.n <= 0 THEN <<0, TRUE>>
          ELSE <<value.n * TicksPerSecond, TRUE>>)
    ELSE IF value.form = "date"
    THEN (IF value.n * TicksPerSecond < 0 THEN <<0, TRUE>>
          ELSE <<value.n * TicksPerSecond, TRUE>>)
    ELSE <<0, FALSE>>

\* Mutant of retryDelay: the Retry-After delay is capped by RetryMaxDelay.
retryDelayCapped(cfg, attempt, retryAfterHeader, jv) ==
    LET parsed == parseRetryAfter(retryAfterHeader)
    IN  IF parsed[2]
        THEN (IF parsed[1] > cfg.RetryMaxDelay THEN cfg.RetryMaxDelay
              ELSE parsed[1])
        ELSE ExponentialBackoffDelay(attempt, cfg.RetryBaseDelay,
                                     cfg.RetryMaxDelay, TRUE, jv)

\* Mutant of RetryAfterOf: the header is read on a 429 only.
RetryAfterOn429Only(resp) ==
    IF resp.status = 429 THEN resp.header ELSE NoHeader

\* `resp.Header.Get("Retry-After")`
RetryAfterOf(resp) == resp.header

\* Mutant of TransportFailed: a failure to read the body counts as one.
TransportOrReadFailed(resp) == resp.kind \in {"transport", "readError"}

\* `resp, err := c.cfg.HTTPClient.Do(req)` returned an error
TransportFailed(resp) == resp.kind = "transport"

\* Client.retryDelay
retryDelay(cfg, attempt, retryAfterHeader, jv) ==
    LET parsed == parseRetryAfter(retryAfterHeader)
    IN  IF parsed[2] THEN parsed[1]
        ELSE ExponentialBackoffDelay(attempt, cfg.RetryBaseDelay,
                                     cfg.RetryMaxDelay, TRUE, jv)

\* Whether the loop draws rand.Float64() before the sleep that follows `resp`.
DrawsSample(resp) ==
    resp.kind = "transport" \/ ~parseRetryAfter(resp.header)[2]

\* Methods whose repetition has the effect of one execution (GET-class).
IsIdempotentMethod(method) == method \in {"GET", "HEAD"}

\* DoWithOptions: a failed attempt may be retried when the method is
\* idempotent or the call opted in with WithRetryUnsafeMethods().
DoWithOptionsMayRetry(method, retryUnsafe) ==
    retryUnsafe \/ IsIdempotentMethod(method)

\* Client.Do has no such gate: every method is retried alike.
DoMayRetry(method) == TRUE

Methods == {"GET", "POST"}
UnsafeMethods == {"POST", "PUT", "PATCH", "DELETE"}
DoJitterSamples == {999999}

\* The request of an attempt as newRequest builds it.
NoRequest ==
    [method |-> "", url |-> "", authorization |-> "", contentType |-> "",
     body |-> ""]

\* What one c.cfg.HTTPClient.Do(req) comes back with; `req` is the request. `errors` and `pages`
\* are the envelope's errors and result_info.total_pages (0: no result_info);
\* `body` and `result` name the bytes of the body and of env.Result by the
\* request they answer (0 and <<>>: none); `page` is the page parameter of
\* the request's query (0: none).
TransportFailure ==
    [kind |-> "transport", status |-> 0, header |-> NoHeader,
     envelope |-> "none", errors |-> <<>>, pages |-> 0, count |-> 0,
     body |-> 0, result |-> <<>>, page |-> 0, req |-> NoRequest]
BodyReadFailure(status) ==
    [TransportFailure EXCEPT !.kind = "readError", !.status = status]
Response(status, header, envelope) ==
    [TransportFailure EXCEPT !.kind = "response", !.status = status,
                             !.header = header, !.envelope = envelope,
                             !.count = IF envelope = "ok" THEN 1 ELSE 0]
\* A success whose result is a list of k entries.
OkList(k) == [Response(200, NoHeader, "ok") EXCEPT !.count = k]
Unsuccessful(apiErrors) ==
    [Response(200, NoHeader, "unsuccessful") EXCEPT !.errors = apiErrors]
OkWithResultInfo(totalPages) ==
    [Response(200, NoHeader, "ok") EXCEPT !.pages = totalPages]

\* Entry k of the list that answers request n is n + ResultStride * (k - 1).
ResultStride == 10

\* The response as request number n receives it.
Received(resp, n) ==
    [resp EXCEPT !.body = IF resp.kind = "response" THEN n ELSE 0,
                 !.result = IF resp.envelope = "ok"
                            THEN [k \in 1 .. resp.count |->
                                    n + ResultStride * (k - 1)]
                            ELSE IF resp.envelope = "badResult" THEN <<n>>
                            ELSE <<>>]

RetryAfterHeaders ==
    {NoHeader, HeaderOf("seconds", 0), HeaderOf("seconds", 2),
     HeaderOf("date", -5), HeaderOf("date", 60), HeaderOf("junk", 0)}

APIErrorLists ==
    {<<>>,
     <<[Code |-> 10000, Message |-> "auth"]>>,
     <<[Code |-> 0, Message |-> "bad"]>>,
     <<[Code |-> 1003, Message |-> "a"], [Code |-> 0, Message |-> "b"]>>}

\* What the server and the transport may answer to one request.
Outcomes ==
    {TransportFailure, BodyReadFailure(200), Response(404, NoHeader, "none")}
    \cup {Response(429, h, "none") : h \in RetryAfterHeaders}
    \cup {Response(408, HeaderOf("seconds", 2), "none")}
    \cup {Response(503, h, "none") : h \in {NoHeader, HeaderOf("seconds", 2)}}
    \cup {Response(200, NoHeader, e) :
            e \in {"ok", "null", "garbled", "badResult"}}
    \cup {Unsuccessful(l) : l \in APIErrorLists}
    \cup {OkWithResultInfo(p) : p \in 1 .. MaxTotalPages}
    \cup {OkList(0), OkList(2)}

RECURSIVE JoinStrings(_, _)
\* strings.Join(parts, sep)
JoinStrings(parts, sep) ==
    IF Len(parts) = 0 THEN ""
    ELSE IF Len(parts) = 1 THEN parts[1]
    ELSE parts[1] \o sep \o JoinStrings(Tail(parts), sep)

\* Mutant of formatAPIErrorItem: the code is printed even when it is 0.
formatAPIErrorItemAlwaysCode(item) ==
    ToString(item.Code) \o ":" \o item.Message

\* formatAPIErrors: the text of one item
formatAPIErrorItem(item) ==
    IF item.Code = 0 THEN item.Message
    ELSE ToString(item.Code) \o ":" \o item.Message

formatAPIErrors(items) ==
    IF Len(items) = 0 THEN "unknown API error"
    ELSE JoinStrings([i \in 1 .. Len(items) |-> formatAPIErrorItem(items[i])],
                     ", ")

\* The error Do returns for a response it does not retry, Nil on success.
ResponseError(resp) ==
    IF resp.kind = "readError" THEN ErrOf("readBody", 0)
    ELSE IF resp.status < 200 \/ resp.status >= 300
    THEN ErrOf("HTTPStatusError", resp.status)
    ELSE IF resp.envelope = "garbled" THEN ErrOf("decodeEnvelope", 0)
    ELSE IF resp.envelope = "unsuccessful" THEN ErrOf("apiError", 0)
    ELSE IF resp.envelope = "badResult" /\ ~doOutNil THEN ErrOf("decodeResult", 0)
    ELSE Nil

\* Mutant of ResponseErrorDetail: HTTPStatusError.Body is left empty.
ResponseErrorDetailNoBody(resp) ==
    IF resp.kind = "response" /\ resp.status >= 200 /\ resp.status < 300
       /\ resp.envelope = "unsuccessful"
    THEN [body |-> 0, msg |-> formatAPIErrors(resp.errors)]
    ELSE NoDetail

\* What that error carries: HTTPStatusError.Body is string(bodyBytes), the
\* API error's text is formatAPIErrors(env.Errors).
ResponseErrorDetail(resp) ==
    IF resp.kind = "readError" THEN NoDetail
    ELSE IF resp.status < 200 \/ resp.status >= 300
    THEN [body |-> resp.body, msg |-> ""]
    ELSE IF resp.envelope = "unsuccessful"
    THEN [body |-> 0, msg |-> formatAPIErrors(resp.errors)]
    ELSE NoDetail

\* Mutant of WritesOut: a null result is decoded into the target as well.
WritesOutNullToo(resp) ==
    /\ resp.kind = "response"
    /\ resp.status >= 200 /\ resp.status < 300
    /\ resp.envelope \in {"ok", "null"}
    /\ ~doOutNil

\* Mutant of WritesOut: the test of out == nil is inverted.
WritesOutWhenNil(resp) ==
    /\ resp.kind = "response"
    /\ resp.status >= 200 /\ resp.status < 300
    /\ resp.envelope = "ok"
    /\ doOutNil

\* Whether json.Unmarshal(env.Result, out) stores into the caller's target.
WritesOut(resp) ==
    /\ resp.kind = "response"
    /\ resp.status >= 200 /\ resp.status < 300
    /\ resp.envelope = "ok"
    /\ ~doOutNil

\* The target after a json.Unmarshal(env.Result, out) that returned an error
\* part of the way through the result.
PartlyWritten == [written |-> TRUE, result |-> <<0>>]

\* What the caller's target may hold after the response that ends the call:
\* json.Unmarshal stores the result; when it fails on a value of the wrong
\* type, what it had stored until then stays.
OutAfter(resp) ==
    IF WritesOut(resp) THEN {[written |-> TRUE, result |-> resp.result]}
    ELSE IF /\ resp.kind = "response"
            /\ resp.status >= 200 /\ resp.status < 300
            /\ resp.envelope = "badResult"
            /\ ~doOutNil
    THEN {doOut, PartlyWritten}
    ELSE {doOut}

\* Mutant of TransportRetriesExhausted: the budget is one retry short.
TransportRetriesExhaustedEarly(attempt, cfg) == attempt + 1 >= cfg.MaxRetries

\* `if attempt >= c.cfg.MaxRetries` after a transport failure
TransportRetriesExhausted(attempt, cfg) == attempt >= cfg.MaxRetries

\* Mutant of StatusRetriesLeft: the budget is one retry short.
StatusRetriesLeftShort(attempt, cfg) == attempt + 1 < cfg.MaxRetries

\* Mutant of StatusRetriesLeft: the budget is one retry long.
StatusRetriesLeftLong(attempt, cfg) == attempt <= cfg.MaxRetries

\* `attempt < c.cfg.MaxRetries` after a retryable status
StatusRetriesLeft(attempt, cfg) == attempt < cfg.MaxRetries

CfTokens == {<<>>, <<" ">>, <<"t", "k">>}
ZoneNames == {<<>>, <<" ">>, <<"x">>}

DoInit ==
    /\ goarch = "amd64"
    /\ BackoffIdle
    /\ RetryIdle
    /\ MoreIdle
    /\ cfOpt \in [maxRetries : (-1) .. MaxClientRetries,
                  baseDelay : {0, 20}, maxDelay : {0, 30}]
    /\ cfOpt.baseDelay = 0 <=> cfOpt.maxDelay = 0
    /\ cfCfg = NewConfig(cfOpt)
    /\ cfToken \in CfTokens
    /\ IF NewTokenError(cfToken) # Nil
       THEN \* New returned no Client: there is nothing to call
            /\ doPc = "noClient"
            /\ doRet = NewTokenError(cfToken)
            /\ doApi = "Do" /\ doRetryUnsafe = FALSE /\ doMethod = "GET"
            /\ doOutNil = FALSE
            /\ doArgs = [endpoint |-> "/zones", name |-> <<>>, body |-> "none"]
       ELSE /\ doPc = "send"
            /\ doRet = Nil
            /\ \/ /\ doApi = "Do" /\ doRetryUnsafe = FALSE
                  /\ doMethod \in Methods /\ doOutNil \in BOOLEAN
                  /\ doArgs = [endpoint |-> "/zones", name |-> <<>>,
                               body |-> IF doMethod = "GET" THEN "none"
                                        ELSE "object"]
               \/ /\ doApi = "DoWithOptions" /\ doRetryUnsafe \in BOOLEAN
                  /\ doMethod \in Methods /\ doOutNil = FALSE
                  /\ doArgs = [endpoint |-> "/zones", name |-> <<>>,
                               body |-> IF doMethod = "GET" THEN "none"
                                        ELSE "object"]
               \/ /\ doApi = "ListZones" /\ doRetryUnsafe = FALSE
                  /\ doMethod = "GET" /\ doOutNil = FALSE
                  /\ doArgs = [endpoint |-> "/zones", name |-> <<>>, body |-> "none"]
               \/ /\ doApi = "ZoneIDByName" /\ doRetryUnsafe = FALSE
                  /\ doMethod = "GET" /\ doOutNil = FALSE
                  /\ doArgs \in [endpoint : {"/zones"}, name : ZoneNames,
                               body : {"none"}]
    /\ doPayload = MarshalRequestBody(doArgs.body)
    /\ doAttempt = 0
    /\ doRequests = <<>>
    /\ doSlept = <<>>
    /\ doSamples = <<>>
    /\ doSleepErr = Nil
    /\ doRetDetail = NoDetail
    /\ doOut = Untouched
    /\ doCtxDone = FALSE

\* One pass of the loop body, from newRequest to the return or to the call of
\* SleepContext; mayRetry is the gate of the entry point.
Attempt(mayRetry) ==
    /\ doPc = "send"
    /\ \E answer \in (IF doCtxDone THEN {TransportFailure} ELSE Outcomes) :
         LET resp ==
               [Received(answer, Len(doRequests) + 1) EXCEPT
                  !.req = newRequest(cfToken, doMethod,
                                     buildURL(doArgs.endpoint, doArgs.name),
                                     doPayload, doAttempt)]
         IN
         /\ doRequests' = Append(doRequests, resp)
         /\ IF TransportFailed(resp)
            THEN IF TransportRetriesExhausted(doAttempt, cfCfg) \/ ~mayRetry
                 THEN /\ doRet' = ErrOf("transport", Len(doRequests) + 1)
                      /\ doPc' = "done"
                      /\ UNCHANGED <<doSlept, doSamples, doRetDetail, doOut>>
                 ELSE \E jv \in DoJitterSamples :
                      /\ doSlept' =
                           Append(doSlept,
                                  ExponentialBackoffDelay(doAttempt,
                                      cfCfg.RetryBaseDelay, cfCfg.RetryMaxDelay,
                                      TRUE, jv))
                      /\ doSamples' = Append(doSamples, jv)
                      /\ doPc' = "sleep"
                      /\ UNCHANGED <<doRet, doRetDetail, doOut>>
            ELSE IF /\ resp.kind = "response"
                    /\ shouldRetryStatus(resp.status)
                    /\ StatusRetriesLeft(doAttempt, cfCfg)
                    /\ mayRetry
                 THEN \E jv \in (IF DrawsSample(resp)
                                 THEN DoJitterSamples ELSE {0}) :
                      /\ doSlept' =
                           Append(doSlept,
                                  retryDelay(cfCfg, doAttempt, RetryAfterOf(resp),
                                             jv))
                      /\ doSamples' = Append(doSamples, jv)
                      /\ doPc' = "sleep"
                      /\ UNCHANGED <<doRet, doRetDetail, doOut>>
                 ELSE /\ doRet' = ResponseError(resp)
                      /\ doRetDetail' = ResponseErrorDetail(resp)
                      /\ doOut' \in OutAfter(resp)
                      /\ doPc' = "done"
                      /\ UNCHANGED <<doSlept, doSamples>>
    /\ UNCHANGED <<moreVars, goarch, backoffVars, retryVars, cfOpt, cfCfg,
                   cfToken, doArgs, doPayload, doApi,
                   doRetryUnsafe, doMethod, doOutNil, doAttempt, doSleepErr,
                   doCtxDone>>

\* Client.Do
DoAttempt ==
    /\ doApi = "Do"
    /\ Attempt(DoMayRetry(doMethod))

\* Client.DoWithOptions
DoWithOptionsAttempt ==
    /\ doApi = "DoWithOptions"
    /\ Attempt(DoWithOptionsMayRetry(doMethod, doRetryUnsafe))

\* Client.ListZones: c.Do(ctx, http.MethodGet, "/zones", nil, nil, &zones)
ListZonesAttempt ==
    /\ doApi = "ListZones"
    /\ Attempt(DoMayRetry("GET"))

\* Mutant of ZoneIDOf: the last zone is taken.
ZoneIDOfLast(zones) == zones[Len(zones)]

\* zones[0].ID
ZoneIDOf(zones) == zones[1]

\* Client.ZoneIDByName: the test of zoneName, then one pass of the loop of
\* c.Do(ctx, http.MethodGet, "/zones", params, nil, &zones)
ZoneIDByNameAttempt ==
    /\ doApi = "ZoneIDByName"
    /\ IF TrimSpace(doArgs.name) = <<>>
       THEN /\ doPc = "send"
            /\ doRet' = ErrOf("zoneNameEmpty", 0)
            /\ doPc' = "done"
            /\ UNCHANGED <<moreVars, goarch, backoffVars, retryVars, cfOpt,
                           cfCfg, cfToken, doArgs, doPayload, doApi,
                           doRetryUnsafe, doMethod, doOutNil, doAttempt,
                           doRequests, doSlept, doSamples, doSleepErr,
                           doRetDetail, doOut, doCtxDone>>
       ELSE Attempt(DoMayRetry("GET"))

\* What ZoneIDByName returns once its call of Do has: [id, err], id 0 for "".
ZoneIDByNameReturn ==
    IF doRet # Nil THEN [id |-> 0, err |-> doRet]
    ELSE IF Len(doOut.result) = 0
    THEN [id |-> 0, err |-> ErrOf("ErrZoneNotFound", 0)]
    ELSE [id |-> ZoneIDOf(doOut.result), err |-> Nil]

\* What ListZones returns once its call of Do has.
ListZonesReturn ==
    IF doRet # Nil THEN [zones |-> <<>>, err |-> doRet]
    ELSE [zones |-> doOut.result, err |-> Nil]

\* Mutant of AfterSleep: a cancelled sleep is slept again.
AfterSleepAgain(sleepErr) == IF sleepErr # Nil THEN "sleep" ELSE "send"

\* Where the loop goes when SleepContext has returned: `return sleepErr`
\* ends the call, `continue` sends the next request.
AfterSleep(sleepErr) == IF sleepErr # Nil THEN "done" ELSE "send"

\* httpx.SleepContext(ctx, delay) returns; `return sleepErr` or `continue`
DoSleep ==
    /\ doPc = "sleep"
    /\ LET sleepErr == SleepContext(doCtxDone, doSlept[Len(doSlept)])
       IN  /\ doSleepErr' = sleepErr
           /\ doPc' = AfterSleep(sleepErr)
           /\ IF sleepErr # Nil
              THEN /\ doRet' = sleepErr
                   /\ UNCHANGED doAttempt
              ELSE /\ doAttempt' = doAttempt + 1
                   /\ UNCHANGED doRet
    /\ UNCHANGED <<moreVars, goarch, backoffVars, retryVars, cfOpt, cfCfg,
                   cfToken, doArgs, doPayload, doApi,
                   doRetryUnsafe, doMethod, doOutNil, doRequests, doSlept,
                   doSamples, doRetDetail, doOut, doCtxDone>>

\* The caller cancels ctx while the call runs.
DoCancel ==
    /\ doPc \in {"send", "sleep"}
    /\ ~doCtxDone
    /\ doCtxDone' = TRUE
    /\ UNCHANGED <<moreVars, goarch, backoffVars, retryVars, cfOpt, cfCfg,
                   cfToken, doArgs, doPayload, doPc, doApi,
                   doRetryUnsafe, doMethod, doOutNil, doAttempt, doRequests,
                   doSlept, doSamples, doSleepErr, doRet, doRetDetail, doOut>>

DoNext ==
    \/ DoAttempt
    \/ DoWithOptionsAttempt
    \/ ListZonesAttempt
    \/ ZoneIDByNameAttempt
    \/ DoSleep
    \/ DoCancel

SpecDo == DoInit /\ [][DoNext]_vars

\* Every transport call returns and every sleep returns; the caller need not
\* cancel.
DoFairness ==
    /\ WF_vars(DoAttempt)
    /\ WF_vars(DoWithOptionsAttempt)
    /\ WF_vars(ListZonesAttempt)
    /\ WF_vars(ZoneIDByNameAttempt)
    /\ WF_vars(DoSleep)

\* The calls of DoInit on a Client with the default delays, with a target to
\* decode into.
DoFairInit ==
    /\ DoInit
    /\ cfOpt.baseDelay = 0
    /\ ~doOutNil

SpecDoFair == DoFairInit /\ [][DoNext]_vars /\ DoFairness

-----------------------------------------------------------------------------
(* cloudflare: two calls of Client.Do running concurrently on one Client *)

Calls == {1, 2}

ConcOutcomes ==
    {TransportFailure, Response(503, NoHeader, "none"),
     Response(429, HeaderOf("seconds", 0), "none"),
     Response(404, NoHeader, "none"), Response(200, NoHeader, "ok")}

\* Mutant of AttemptOf: the calls count their attempts in one shared counter.
AttemptOfShared(calls, c) == calls[1].attempt + calls[2].attempt

\* `for attempt := 0; ; attempt++`: attempt is a local of the call
AttemptOf(calls, c) == calls[c].attempt

ConcInit ==
    /\ goarch = "amd64"
    /\ BackoffIdle
    /\ RetryIdle
    /\ DoIdle
    /\ ScopeIdle
    /\ VaultIdle
    /\ AccessIdle
    /\ SleepIdle
    /\ \E opt \in [maxRetries : 0 .. MaxClientRetries, baseDelay : {0, 20},
                   maxDelay : {0}] : ccCfg = NewConfig(opt)
    /\ ccCalls = [c \in Calls |->
                    [pc |-> "send", attempt |-> 0, requests |-> <<>>,
                     slept |-> <<>>, ret |-> Nil]]

\* One pass of the loop body of call c, as in Attempt.
ConcAttempt(c) ==
    /\ ccCalls[c].pc = "send"
    /\ \E answer \in ConcOutcomes :
         LET call == ccCalls[c]
             resp == Received(answer, Len(call.requests) + 1)
             sent == [call EXCEPT !.requests = Append(call.requests, resp)]
             jv == CHOOSE v \in DoJitterSamples : TRUE
         IN  ccCalls' = [ccCalls EXCEPT ![c] =
               IF resp.kind = "transport"
               THEN IF TransportRetriesExhausted(AttemptOf(ccCalls, c), ccCfg)
                    THEN [sent EXCEPT
                            !.ret = ErrOf("transport", Len(call.requests) + 1),
                            !.pc = "done"]
                    ELSE [sent EXCEPT
                            !.slept = Append(call.slept,
                                ExponentialBackoffDelay(AttemptOf(ccCalls, c),
                                    ccCfg.RetryBaseDelay, ccCfg.RetryMaxDelay,
                                    TRUE, jv)),
                            !.pc = "sleep"]
               ELSE IF /\ shouldRetryStatus(resp.status)
                       /\ StatusRetriesLeft(AttemptOf(ccCalls, c), ccCfg)
                    THEN [sent EXCEPT
                            !.slept = Append(call.slept,
                                retryDelay(ccCfg, AttemptOf(ccCalls, c),
                                           resp.header, jv)),
                            !.pc = "sleep"]
                    ELSE [sent EXCEPT !.ret = ResponseError(resp),
                                      !.pc = "done"]]
    /\ UNCHANGED <<goarch, backoffVars, retryVars, doVars, ccCfg, scopeVars,
                   vaultVars, accVars, sleepVars>>

\* SleepContext returns in call c (ctx is not cancelled): `continue`
ConcSleep(c) ==
    /\ ccCalls[c].pc = "sleep"
    /\ SleepContext(FALSE, ccCalls[c].slept[Len(ccCalls[c].slept)]) = Nil
    /\ ccCalls' = [ccCalls EXCEPT ![c].attempt = @ + 1, ![c].pc = "send"]
    /\ UNCHANGED <<goarch, backoffVars, retryVars, doVars, ccCfg, scopeVars,
                   vaultVars, accVars, sleepVars>>

ConcNext ==
    \/ \E c \in Calls : ConcAttempt(c)
    \/ \E c \in Calls : ConcSleep(c)

SpecConc == ConcInit /\ [][ConcNext]_vars

-----------------------------------------------------------------------------
(* cloudflare: Scope, AccountScope, ZoneScope and Scope.PathPrefix *)
(* Text is a sequence of characters, so that trimming and escaping are    *)
(* computed character by character.                                        *)

ScopeAccounts == "accounts"
ScopeZones == "zones"

\* Mutant of PathEscapeChar: nothing is escaped.
PathEscapeCharNone(ch) == ch

\* url.PathEscape on one character
PathEscapeChar(ch) ==
    CASE ch = " " -> "%20"
      [] ch = "\t" -> "%09"
      [] ch = "/" -> "%2F"
      [] ch = "%" -> "%25"
      [] ch = "?" -> "%3F"
      [] OTHER -> ch

RECURSIVE PathEscape(_)
\* url.PathEscape, as a string
PathEscape(text) ==
    IF Len(text) = 0 THEN ""
    ELSE PathEscapeChar(text[1]) \o PathEscape(Tail(text))

AccountScope(accountID) == [Kind |-> ScopeAccounts, ID |-> TrimSpace(accountID)]
ZoneScope(zoneID) == [Kind |-> ScopeZones, ID |-> TrimSpace(zoneID)]

\* Scope.PathPrefix: [prefix, err]
PathPrefix(s) ==
    IF s.Kind \notin {ScopeAccounts, ScopeZones}
    THEN [prefix |-> "", err |-> ErrOf("unsupportedScopeKind", 0)]
    ELSE IF s.ID = <<>>
    THEN [prefix |-> "", err |-> ErrOf("emptyScopeID", 0)]
    ELSE [prefix |-> s.Kind \o "/" \o PathEscape(s.ID), err |-> Nil]

ScopeChars == {"x", "-", " ", "\t", "/", "%"}

ScopeIDs ==
    {<<>>, <<"a", "c", "c", "-", "1">>, <<"z", "o", "n", "e", "-", "1">>,
     <<" ", "a", "/", "b", " ">>}
    \cup UNION {[1 .. n -> ScopeChars] : n \in 1 .. MaxScopeIDLen}

ScopeInputs ==
    [ctor : {"literal"}, id : ScopeIDs,
     kind : {ScopeAccounts, ScopeZones, "", "unsupported", "Accounts"}]
    \cup [ctor : {"AccountScope", "ZoneScope"}, id : ScopeIDs, kind : {""}]

ScopeInit ==
    /\ goarch = "amd64"
    /\ BackoffIdle
    /\ RetryIdle
    /\ DoIdle
    /\ ConcIdle
    /\ VaultIdle
    /\ AccessIdle
    /\ SleepIdle
    /\ scopePc = "ready"
    /\ scopeIn \in ScopeInputs
    /\ scope = [Kind |-> "", ID |-> <<>>]
    /\ scopeOut = [prefix |-> "", err |-> Nil]

\* The Scope is built and PathPrefix is called on it.
ScopePathPrefix ==
    /\ scopePc = "ready"
    /\ LET s == IF scopeIn.ctor = "AccountScope" THEN AccountScope(scopeIn.id)
                ELSE IF scopeIn.ctor = "ZoneScope" THEN ZoneScope(scopeIn.id)
                ELSE [Kind |-> scopeIn.kind, ID |-> scopeIn.id]
       IN  /\ scope' = s
           /\ scopeOut' = PathPrefix(s)
    /\ scopePc' = "done"
    /\ UNCHANGED <<goarch, backoffVars, retryVars, doVars, concVars, scopeIn,
                   vaultVars, accVars, sleepVars>>

ScopeNext == ScopePathPrefix

SpecScope == ScopeInit /\ [][ScopeNext]_vars

-----------------------------------------------------------------------------
(* vault: New, WriteKVv2, ReadKVv2 and a server that stores what is written *)

RECURSIVE TrimLeftSlashes(_)
TrimLeftSlashes(text) ==
    IF Len(text) > 0 /\ text[1] = "/" THEN TrimLeftSlashes(Tail(text))
    ELSE text

RECURSIVE TrimRightSlashes(_)
\* strings.TrimRight(text, "/")
TrimRightSlashes(text) ==
    IF Len(text) > 0 /\ text[Len(text)] = "/"
    THEN TrimRightSlashes(SubSeq(text, 1, Len(text) - 1))
    ELSE text

\* strings.Trim(text, "/")
TrimSlashes(text) == TrimRightSlashes(TrimLeftSlashes(text))

\* Mutant of VaultNew: the token is tested as given, untrimmed.
VaultNewUntrimmedToken(address, token) ==
    LET cfgAddress == TrimRightSlashes(TrimSpace(address))
    IN  IF cfgAddress = <<>>
        THEN [address |-> "", token |-> "",
              err |-> ErrOf("VAULT_ADDR is required", 0), built |-> FALSE]
        ELSE IF token = <<>>
        THEN [address |-> "", token |-> "",
              err |-> ErrOf("VAULT_TOKEN is required", 0), built |-> FALSE]
        ELSE [address |-> TextOf(cfgAddress), token |-> TextOf(TrimSpace(token)),
              err |-> Nil, built |-> TRUE]

\* vault.New and newClient: the Client, or the error
VaultNew(address, token) ==
    LET cfgAddress == TrimRightSlashes(TrimSpace(address))
        cfgToken == TrimSpace(token)
    IN  IF cfgAddress = <<>>
        THEN [address |-> "", token |-> "",
              err |-> ErrOf("VAULT_ADDR is required", 0), built |-> FALSE]
        ELSE IF cfgToken = <<>>
        THEN [address |-> "", token |-> "",
              err |-> ErrOf("VAULT_TOKEN is required", 0), built |-> FALSE]
        ELSE [address |-> TextOf(cfgAddress), token |-> TextOf(cfgToken),
              err |-> Nil, built |-> TRUE]

\* Client.kvV2URL: [url, path, err]; path is the URL's path
kvV2URL(client, secretsEngine, secretPath) ==
    LET mount == TrimSlashes(TrimSpace(secretsEngine))
        path == TrimSlashes(TrimSpace(secretPath))
    IN  IF mount = <<>>
        THEN [url |-> "", path |-> "", err |-> ErrOf("secretsEngineEmpty", 0)]
        ELSE IF path = <<>>
        THEN [url |-> "", path |-> "", err |-> ErrOf("secretPathEmpty", 0)]
        ELSE [url |-> client.address \o "/v1/" \o TextOf(mount) \o "/data/"
                        \o TextOf(path),
              path |-> "/v1/" \o TextOf(mount) \o "/data/" \o TextOf(path),
              err |-> Nil]

\* Go values of type map[string]any: the nil map, or a map with its entries.
NilMap == [go |-> "nil map", entries |-> {}]
MapOf(entries) == [go |-> "map", entries |-> entries]

\* JSON values: null, or an object with its members.
JSONNull == [json |-> "null", members |-> {}]
JSONObject(members) == [json |-> "object", members |-> members]
\* No body, a body that is not the JSON expected, and no stored member.
NoBody == [json |-> "none", members |-> {}]
Garbled == [json |-> "garbled", members |-> {}]
Absent == [json |-> "absent", members |-> {}]

\* json.Marshal of a map[string]any
MarshalMap(value) ==
    IF value.go = "nil map" THEN JSONNull ELSE JSONObject(value.entries)

\* json.Unmarshal into a map[string]any
UnmarshalMap(text) ==
    IF text.json = "null" THEN NilMap ELSE MapOf(text.members)

VaultCredentials ==
    {NilMap, MapOf({}),
     MapOf({<<"username", "svc-user">>, <<"password", "svc-pass">>})}

VaultAddresses == {<<>>, <<"/">>, <<" ", "h", "/">>}
VaultTokens == {<<>>, <<" ">>, <<" ", "s">>}
VaultMounts == {<<>>, <<"/", "m">>}
VaultPaths == {<<" ">>, <<"/", "p", "/">>, <<"q">>}

\* What the server and the transport may do with one request: the store of
\* TestWriteAndReadKVv2 serves it, or the request fails.
VaultOutcomes ==
    {[kind |-> "store", status |-> 0], [kind |-> "transport", status |-> 0]}
    \cup {[kind |-> "fault", status |-> st] : st \in {403, 429, 500}}
    \cup {[kind |-> "garbled", status |-> 200]}

\* Mutant of RequestsSent: a transport failure, a 429 or a 5xx is sent again.
RequestsSentWithRetry(req, outcome) ==
    IF outcome.kind = "transport" \/ outcome.status \in {429, 500}
    THEN <<req, req>> ELSE <<req>>

\* c.httpClient.Do(req), called once in a call
RequestsSent(req, outcome) == <<req>>

\* Mutant of IsNotFoundStatus: every 4xx counts as not found.
IsNotFoundStatusAny4xx(status) == status >= 400 /\ status < 500

\* `resp.StatusCode == http.StatusNotFound`
IsNotFoundStatus(status) == status = 404

VaultInit ==
    /\ goarch = "amd64"
    /\ BackoffIdle
    /\ RetryIdle
    /\ DoIdle
    /\ ConcIdle
    /\ ScopeIdle
    /\ AccessIdle
    /\ SleepIdle
    /\ vaultNewIn \in [address : VaultAddresses, token : VaultTokens]
    /\ vaultClient = VaultNew(vaultNewIn.address, vaultNewIn.token)
    /\ vaultStore = <<>>
    /\ vaultWritten = <<>>
    /\ vaultCall = NoVaultCall

\* The "data" member the server keeps under a URL path, Absent if none.
StoredAt(store, path) ==
    IF path \in DOMAIN store THEN store[path] ELSE Absent

\* The store with `value` kept under `path`.
StoreWith(store, path, value) ==
    [key \in DOMAIN store \cup {path} |->
        IF key = path THEN value ELSE store[key]]

\* Client.WriteKVv2, with the server's handling of its request
VaultWriteKVv2 ==
    /\ vaultClient.built
    /\ \E mount \in VaultMounts, path \in VaultPaths,
          credentials \in VaultCredentials, outcome \in VaultOutcomes :
         LET target == kvV2URL(vaultClient, mount, path)
             req == [method |-> "POST", url |-> target.url,
                     token |-> vaultClient.token,
                     body |-> JSONObject({<<"data", MarshalMap(credentials)>>})]
             call == [NoVaultCall EXCEPT !.op = "WriteKVv2", !.mount = mount,
                                         !.path = path,
                                         !.credentials = credentials]
             kept == CHOOSE pair \in req.body.members : pair[1] = "data"
         IN  IF target.err # Nil
             THEN /\ vaultCall' = [call EXCEPT !.ret = target.err]
                  /\ UNCHANGED <<vaultStore, vaultWritten>>
             ELSE IF outcome.kind = "transport"
             THEN /\ vaultCall' =
                       [call EXCEPT !.requests = RequestsSent(req, outcome),
                                    !.ret = ErrOf("vault write request failed", 0)]
                  /\ UNCHANGED <<vaultStore, vaultWritten>>
             ELSE IF outcome.kind = "store"
             THEN /\ vaultStore' = StoreWith(vaultStore, target.path, kept[2])
                  /\ vaultWritten' =
                       StoreWith(vaultWritten, target.path, credentials)
                  /\ vaultCall' =
                       [call EXCEPT !.requests = RequestsSent(req, outcome),
                                    !.served = TRUE, !.status = 204]
             ELSE /\ vaultCall' =
                       [call EXCEPT !.requests = RequestsSent(req, outcome),
                                    !.status = outcome.status,
                                    !.ret =
                                       IF outcome.status < 200
                                          \/ outcome.status >= 300
                                       THEN ErrOf("vault write failed with status",
                                                  outcome.status)
                                       ELSE Nil]
                  /\ UNCHANGED <<vaultStore, vaultWritten>>
    /\ UNCHANGED <<goarch, backoffVars, retryVars, doVars, concVars, scopeVars,
                   accVars, sleepVars, vaultNewIn, vaultClient>>

\* What ReadKVv2 makes of a response: [ret, data]
ReadResult(status, body) ==
    IF IsNotFoundStatus(status)
    THEN [ret |-> ErrOf("ErrSecretNotFound", 0), data |-> NoMap]
    ELSE IF status < 200 \/ status >= 300
    THEN [ret |-> ErrOf("vault read failed with status", status),
          data |-> NoMap]
    ELSE IF body = Garbled
    THEN [ret |-> ErrOf("decode vault read response", 0), data |-> NoMap]
    ELSE IF UnmarshalMap(body).go = "nil map"
    THEN [ret |-> ErrOf("vault response missing secret data", 0),
          data |-> NoMap]
    ELSE [ret |-> Nil, data |-> UnmarshalMap(body)]

\* Client.ReadKVv2, with the server's handling of its request
VaultReadKVv2 ==
    /\ vaultClient.built
    /\ \E mount \in VaultMounts, path \in VaultPaths,
          outcome \in VaultOutcomes :
         LET target == kvV2URL(vaultClient, mount, path)
             req == [method |-> "GET", url |-> target.url,
                     token |-> vaultClient.token, body |-> NoBody]
             call == [NoVaultCall EXCEPT !.op = "ReadKVv2", !.mount = mount,
                                         !.path = path]
             stored == StoredAt(vaultStore, target.path)
             status == IF outcome.kind = "store"
                       THEN (IF stored = Absent THEN 404 ELSE 200)
                       ELSE outcome.status
             body == IF outcome.kind = "store" /\ stored # Absent THEN stored
                     ELSE Garbled
         IN  IF target.err # Nil
             THEN vaultCall' = [call EXCEPT !.ret = target.err]
             ELSE IF outcome.kind = "transport"
             THEN vaultCall' =
                    [call EXCEPT !.requests = RequestsSent(req, outcome),
                                 !.ret = ErrOf("vault read request failed", 0)]
             ELSE vaultCall' =
                    [call EXCEPT !.requests = RequestsSent(req, outcome),
                                 !.served = (outcome.kind = "store"),
                                 !.status = status,
                                 !.ret = ReadResult(status, body).ret,
                                 !.data = ReadResult(status, body).data]
    /\ UNCHANGED <<goarch, backoffVars, retryVars, doVars, concVars, scopeVars,
                   accVars, sleepVars, vaultNewIn, vaultClient, vaultStore,
                   vaultWritten>>

VaultNext ==
    \/ VaultWriteKVv2
    \/ VaultReadKVv2

SpecVault == VaultInit /\ [][VaultNext]_vars

-----------------------------------------------------------------------------
(* The two clients: a cloudflare Client from New with its calls, or a vault
   Client from New with its calls *)

ClientsInit ==
    \/ DoInit
    \/ VaultInit

ClientsNext ==
    \/ DoNext
    \/ VaultNext

SpecClients == ClientsInit /\ [][ClientsNext]_vars

-----------------------------------------------------------------------------
(* cloudflare: AccessService.Do, a scoped request through DoWithOptions *)

\* strings.TrimPrefix(text, "/")
TrimPrefixSlash(text) ==
    IF Len(text) > 0 /\ text[1] = "/" THEN Tail(text) ELSE text

\* Mutant of CleanEndpoint: the endpoint is not trimmed of white space.
CleanEndpointUntrimmed(endpoint) == TrimPrefixSlash(endpoint)

\* `cleanEndpoint := strings.TrimPrefix(strings.TrimSpace(endpoint), "/")`
CleanEndpoint(endpoint) == TrimPrefixSlash(TrimSpace(endpoint))

AccessScopes ==
    [Kind : {ScopeAccounts, ScopeZones, "unsupported", ""},
     ID : {<<>>, <<" ">>, <<"x">>}]

AccessEndpoints ==
    {<<>>, <<" ">>, <<"/">>, <<" ", "/", " ">>, <<"/", "/">>,
     <<"/", "a">>, <<"a", " ">>}

\* A Client from New("tk", WithMaxRetries(1)) and a call of Access().Do
AccessInit ==
    /\ goarch = "amd64"
    /\ BackoffIdle
    /\ RetryIdle
    /\ ConcIdle
    /\ ScopeIdle
    /\ VaultIdle
    /\ SleepIdle
    /\ cfOpt = [maxRetries |-> 1, baseDelay |-> 0, maxDelay |-> 0]
    /\ cfCfg = NewConfig(cfOpt)
    /\ cfToken = <<"t", "k">>
    /\ accIn \in [scope : AccessScopes, endpoint : AccessEndpoints]
    /\ doPc = "access"
    /\ doApi = "DoWithOptions"
    /\ doRetryUnsafe \in BOOLEAN
    /\ doMethod \in Methods
    /\ doOutNil = FALSE
    /\ doArgs = [endpoint |-> "", name |-> <<>>,
                 body |-> IF doMethod = "GET" THEN "none" ELSE "object"]
    /\ doPayload = MarshalRequestBody(doArgs.body)
    /\ doRet = Nil
    /\ doAttempt = 0
    /\ doRequests = <<>>
    /\ doSlept = <<>>
    /\ doSamples = <<>>
    /\ doSleepErr = Nil
    /\ doRetDetail = NoDetail
    /\ doOut = Untouched
    /\ doCtxDone = FALSE

\* AccessService.Do up to its call of a.client.DoWithOptions
AccessDo ==
    /\ doPc = "access"
    /\ LET prefix == PathPrefix(accIn.scope)
           cleanEndpoint == CleanEndpoint(accIn.endpoint)
       IN  IF prefix.err # Nil
           THEN /\ doRet' = prefix.err
                /\ doPc' = "done"
                /\ UNCHANGED doArgs
           ELSE IF cleanEndpoint = <<>>
           THEN /\ doRet' = ErrOf("access endpoint must not be empty", 0)
                /\ doPc' = "done"
                /\ UNCHANGED doArgs
           ELSE /\ doArgs' =
                     [doArgs EXCEPT !.endpoint =
                         "/" \o prefix.prefix \o "/" \o TextOf(cleanEndpoint)]
                /\ doPc' = "send"
                /\ UNCHANGED doRet
    /\ UNCHANGED <<moreVars, goarch, backoffVars, retryVars, cfOpt, cfCfg,
                   cfToken, doPayload, doApi, doRetryUnsafe, doMethod,
                   doOutNil, doAttempt, doRequests, doSlept, doSamples,
                   doSleepErr, doRetDetail, doOut, doCtxDone>>

AccessNext ==
    \/ AccessDo
    \/ DoWithOptionsAttempt
    \/ DoSleep
    \/ DoCancel

SpecAccess == AccessInit /\ [][AccessNext]_vars

-----------------------------------------------------------------------------
(* internal/httpx: SleepContext step by step, with its timer and its select *)

MaxSleepDelay == 4

\* The cases of the select that can proceed.
ReadyCases(ctxDone, timer) ==
    (IF ctxDone THEN {"ctx"} ELSE {}) \cup (IF timer = "fired" THEN {"timer"} ELSE {})

\* What the chosen case returns: ctx.Err() or nil.
CaseResult(case) == IF case = "ctx" THEN Canceled ELSE Nil

SleepInit ==
    /\ goarch = "amd64"
    /\ BackoffIdle
    /\ RetryIdle
    /\ DoIdle
    /\ ConcIdle
    /\ ScopeIdle
    /\ VaultIdle
    /\ AccessIdle
    /\ slPc = "call"
    /\ slDelay \in (-1) .. MaxSleepDelay
    /\ slNow = 0
    /\ slCtxDone \in BOOLEAN
    /\ slCancelAt = IF slCtxDone THEN 0 ELSE -1
    /\ slTimer = "none"
    /\ slWoken = "none"
    /\ slRet = Nil

\* `if delay <= 0 { return nil }`, else `timer := time.NewTimer(delay)`
SleepCall ==
    /\ slPc = "call"
    /\ IF slDelay <= 0
       THEN /\ slPc' = "done"
            /\ slRet' = Nil
            /\ UNCHANGED slTimer
       ELSE /\ slPc' = "select"
            /\ slTimer' = "running"
            /\ UNCHANGED slRet
    /\ UNCHANGED <<goarch, backoffVars, retryVars, doVars, concVars, scopeVars,
                   vaultVars, accVars, slDelay, slNow, slCtxDone, slCancelAt,
                   slWoken>>

\* The select statement is reached: one of the cases that can proceed is
\* chosen and SleepContext returns, the deferred timer.Stop() running on the
\* way out; with none it blocks.
SleepSelect ==
    /\ slPc = "select"
    /\ IF ReadyCases(slCtxDone, slTimer) = {}
       THEN /\ slPc' = "parked"
            /\ UNCHANGED <<slRet, slTimer>>
       ELSE \E case \in ReadyCases(slCtxDone, slTimer) :
            /\ slRet' = CaseResult(case)
            /\ slTimer' = "stopped"
            /\ slPc' = "done"
    /\ UNCHANGED <<goarch, backoffVars, retryVars, doVars, concVars, scopeVars,
                   vaultVars, accVars, slDelay, slNow, slCtxDone, slCancelAt,
                   slWoken>>

\* The blocked select is woken by the first case that proceeds and
\* SleepContext returns, the deferred timer.Stop() running on the way out.
SleepWake ==
    /\ slPc = "parked"
    /\ slWoken # "none"
    /\ slRet' = CaseResult(slWoken)
    /\ slTimer' = "stopped"
    /\ slPc' = "done"
    /\ UNCHANGED <<goarch, backoffVars, retryVars, doVars, concVars, scopeVars,
                   vaultVars, accVars, slDelay, slNow, slCtxDone, slCancelAt,
                   slWoken>>

\* The caller cancels ctx.
SleepCtxCancel ==
    /\ slPc \in {"call", "select", "parked"}
    /\ ~slCtxDone
    /\ slCtxDone' = TRUE
    /\ slCancelAt' = slNow
    /\ slWoken' = IF slPc = "parked" /\ slWoken = "none" THEN "ctx" ELSE slWoken
    /\ UNCHANGED <<goarch, backoffVars, retryVars, doVars, concVars, scopeVars,
                   vaultVars, accVars, slPc, slDelay, slNow, slTimer, slRet>>

\* A tick passes; when the delay has elapsed the timer fires.
SleepTick ==
    /\ slTimer = "running"
    /\ slNow < slDelay
    /\ slNow' = slNow + 1
    /\ slTimer' = IF slNow + 1 = slDelay THEN "fired" ELSE "running"
    /\ slWoken' = IF slNow + 1 = slDelay /\ slPc = "parked" /\ slWoken = "none"
                  THEN "timer" ELSE slWoken
    /\ UNCHANGED <<goarch, backoffVars, retryVars, doVars, concVars, scopeVars,
                   vaultVars, accVars, slPc, slDelay, slCtxDone, slCancelAt,
                   slRet>>

SleepNext ==
    \/ SleepCall
    \/ SleepSelect
    \/ SleepWake
    \/ SleepCtxCancel
    \/ SleepTick

SpecSleep == SleepInit /\ [][SleepNext]_vars

-----------------------------------------------------------------------------
(* Properties of internal/httpx *)

AllTransient(calls) == \A i \in 1 .. Len(calls) : calls[i].kind = "transient"

RECURSIVE MinPow2(_, _, _)
\* min(base * 2^attempt, cap) for base > 0
MinPow2(base, attempt, cap) ==
    IF base >= cap THEN cap
    ELSE IF attempt = 0 THEN base
    ELSE MinPow2(2 * base, attempt - 1, cap)

\* Retry has returned after operation failed retryably on every invocation
\* and no sleep was cut short.
RetryExhausted ==
    /\ retryPc = "done"
    /\ retryCalls # <<>>
    /\ AllTransient(retryCalls)
    /\ retrySleepErr = Nil

\* C1: with MaxRetries = n >= 0 and an operation that always fails retryably,
\* the operation is invoked exactly n+1 times and Retry returns the error of
\* the last invocation unchanged.
C1_ExhaustsAfterNPlusOne ==
    (RetryExhausted /\ retryCfg.MaxRetries >= 0)
        => /\ Len(retryCalls) = retryCfg.MaxRetries + 1
           /\ retryRet = retryCalls[Len(retryCalls)]

\* C2: an operation that fails retryably on attempts 0..k-1 and succeeds on
\* attempt k is invoked k+1 times, k <= MaxRetries, Sleep is called k times,
\* the i-th sleep gets the backoff delay of attempt i, no sleep follows the
\* success, and Retry returns nil.
C2_SucceedsOnAttemptK ==
    (retryPc = "done" /\ retryCalls # <<>>
        /\ retryCalls[Len(retryCalls)] = Nil)
        => LET k == Len(retryCalls) - 1
           IN  /\ retryRet = Nil
               /\ k <= retryConfig.MaxRetries
               /\ \A i \in 1 .. k : retryCalls[i].kind = "transient"
               /\ Len(retrySlept) = k
               /\ \A i \in 1 .. k :
                    IF retryConfig.EnableJitter
                    THEN retrySlept[i] =
                           ExponentialBackoffDelay(i - 1, retryConfig.BaseDelay,
                               retryConfig.MaxDelay, TRUE, retrySamples[i])
                    ELSE retrySlept[i] =
                           MinPow2(retryConfig.BaseDelay, i - 1,
                                   retryConfig.MaxDelay)

C2_Witness ==
    /\ retryPc = "done"
    /\ retryRet = Nil
    /\ Len(retryCalls) = 3
    /\ ~retryConfig.EnableJitter
    /\ retrySlept = <<10, 20>>

\* C3: when shouldRetry rejects the first error, the operation is invoked
\* once, no sleep occurs and that error is returned, whatever MaxRetries is.
C3_NonRetryableStopsAtOnce ==
    (retryPc = "done" /\ retryCalls # <<>> /\ ~shouldRetry(retryCalls[1])
        /\ retryCalls[1] # Nil)
        => /\ Len(retryCalls) = 1
           /\ retrySlept = <<>>
           /\ retryRet = retryCalls[1]

C3_Witness ==
    /\ retryPc = "done"
    /\ retryCfg.MaxRetries = 2
    /\ retryCalls = <<ErrOf("permanent", 1)>>
    /\ retryRet = ErrOf("permanent", 1)

\* C4: a negative MaxRetries is treated as 0: a permanently failing retryable
\* operation is invoked exactly once and no sleep occurs.
C4_NegativeMeansNoRetry ==
    (RetryExhausted /\ retryCfg.MaxRetries < 0)
        => /\ Len(retryCalls) = 1
           /\ retrySlept = <<>>

\* C5: when the sleep between attempts returns a cancellation error, Retry
\* returns that error at once and the operation is not invoked again.
C5_SleepCancelShortCircuits ==
    (retrySleepErr # Nil)
        => /\ retryPc = "done"
           /\ retryRet = retrySleepErr
           /\ Len(retryCalls) = Len(retrySlept)

C5_Witness ==
    /\ retrySleepErr = Canceled
    /\ retryPc = "done"
    /\ retryAttempt + 1 < retryConfig.MaxRetries
    /\ Len(retryCalls) = 2

\* C6: with jitter disabled the delay is min(baseDelay * 2^attempt, maxDelay)
\* for every attempt >= 0 (a negative attempt counts as 0), and it does not
\* decrease from one attempt to the next.
C6_NoJitterClosedForm ==
    (boPc = "done" /\ boIn.baseDelay > 0 /\ boIn.maxDelay > 0)
        => LET a == IF boIn.attempt < 0 THEN 0 ELSE boIn.attempt
           IN  /\ boOut.plain = MinPow2(boIn.baseDelay, a, boIn.maxDelay)
               /\ boOut.plain <= boOut.next

\* C7: with jitter enabled the delay d' satisfies d <= d' <= 1.1 * d, d being
\* the delay for the same inputs with jitter disabled, for every attempt and
\* every jitter sample.
C7_JitterWithinTenPercent ==
    (boPc = "done")
        => /\ boOut.plain <= boOut.jittered
           /\ boOut.jittered <= boOut.plain + (boOut.plain \div 10)

-----------------------------------------------------------------------------
(* Properties of cloudflare Client.Do / DoWithOptions *)

Is5xx(resp) ==
    resp.kind = "response" /\ resp.status >= 500 /\ resp.status <= 599

MinOf(x, y) == IF x <= y THEN x ELSE y

\* C8: Client.Do with default options and an unsafe method: when the server
\* answers 5xx exactly one request is sent, even if MaxRetries > 0, and Do
\* returns an HTTPStatusError.
C8_UnsafeNotRetriedOn5xx ==
    (doPc = "done" /\ doApi = "Do" /\ doMethod \in UnsafeMethods
        /\ doRequests # <<>> /\ Is5xx(doRequests[1]))
        => /\ Len(doRequests) = 1
           /\ doRet.kind = "HTTPStatusError"

\* C9: Client.Do with default options: for POST/PUT/PATCH/DELETE a transport
\* failure is not retried: exactly one transport call is made and the failure
\* is returned.
C9_UnsafeNotRetriedOnTransportFailure ==
    (doPc = "done" /\ doApi = "Do" /\ doMethod \in UnsafeMethods
        /\ doRequests # <<>> /\ doRequests[1].kind = "transport")
        => /\ Len(doRequests) = 1
           /\ doRet.kind = "transport"

\* The call has ended after f >= 1 consecutive 5xx responses, followed by at
\* most one response that is not retryable, and no sleep was cut short.
EndedAfter5xxRun ==
    /\ doPc = "done"
    /\ doSleepErr = Nil
    /\ doRequests # <<>>
    /\ Is5xx(doRequests[1])
    /\ \A i \in 1 .. Len(doRequests) - 1 : Is5xx(doRequests[i])
    /\ LET last == doRequests[Len(doRequests)]
       IN  last.kind = "response" /\ last.status \notin {408, 429}

Count5xx == Cardinality({i \in 1 .. Len(doRequests) : Is5xx(doRequests[i])})

\* C10: with WithRetryUnsafeMethods, an unsafe request that receives f
\* consecutive 5xx responses is retried exactly min(MaxRetries, f) times; one
\* 5xx followed by a 2xx yields exactly 2 requests and success.
C10_UnsafeOptInRetries ==
    (EndedAfter5xxRun /\ doApi = "DoWithOptions" /\ doRetryUnsafe
        /\ doMethod \in UnsafeMethods)
        => /\ Len(doRequests) - 1 = MinOf(cfCfg.MaxRetries, Count5xx)
           /\ (Len(doRequests) = 2
               /\ doRequests[2].status = 200
               /\ doRequests[2].envelope = "ok")
                 => doRet = Nil

C10_Witness ==
    /\ doPc = "done"
    /\ doApi = "DoWithOptions"
    /\ doRetryUnsafe
    /\ doMethod = "POST"
    /\ cfCfg.MaxRetries = 2
    /\ Len(doRequests) = 2
    /\ Is5xx(doRequests[1])
    /\ doRequests[2].status = 200
    /\ doRequests[2].envelope = "ok"
    /\ doRet = Nil

\* A response with status 408, 429 or 5xx.
HasRetryableStatus(resp) ==
    /\ resp.kind = "response"
    /\ (resp.status \in {408, 429} \/ (resp.status >= 500 /\ resp.status <= 599))

Is2xx(resp) ==
    resp.kind = "response" /\ resp.status >= 200 /\ resp.status < 300

\* C11: with unsafe-method retries enabled the opt-in covers transport
\* failures: an unsafe request whose first transport call fails is sent again
\* (retries allowed, sleep not cut short), and when the second call returns a
\* 2xx success exactly 2 transport calls are made and the call succeeds with
\* the decoded result.
C11_UnsafeOptInCoversTransport ==
    (doPc = "done" /\ doApi = "DoWithOptions" /\ doRetryUnsafe
        /\ doMethod \in UnsafeMethods /\ cfCfg.MaxRetries >= 1
        /\ doSleepErr = Nil
        /\ doRequests # <<>> /\ doRequests[1].kind = "transport")
        => /\ Len(doRequests) >= 2
           /\ (Is2xx(doRequests[2]) /\ doRequests[2].envelope = "ok")
                => /\ Len(doRequests) = 2
                   /\ doRet = Nil
                   /\ ~doOutNil =>
                        doOut = [written |-> TRUE,
                                 result |-> doRequests[2].result]

C11_Witness ==
    /\ doPc = "done"
    /\ doApi = "DoWithOptions"
    /\ doRetryUnsafe
    /\ doMethod = "POST"
    /\ ~doOutNil
    /\ Len(doRequests) = 2
    /\ doRequests[1].kind = "transport"
    /\ Is2xx(doRequests[2])
    /\ doRet = Nil
    /\ doOut = [written |-> TRUE, result |-> <<2>>]

\* C12: for a GET request, a response with status 408, 429 or 5xx on an
\* attempt whose index is below MaxRetries is followed by a retry sleep, never
\* by a return of that response; an HTTPStatusError with such a status is
\* returned only for the response of the attempt whose index equals
\* MaxRetries, and carries that response's status and raw body.
C12_RetryableStatusRetriedUntilBudget ==
    doMethod = "GET" =>
        /\ \A i \in 1 .. Len(doRequests) :
             (HasRetryableStatus(doRequests[i]) /\ i - 1 < cfCfg.MaxRetries)
                => Len(doSlept) >= i
        /\ (doPc = "done" /\ doRet.kind = "HTTPStatusError"
              /\ (doRet.id \in {408, 429}
                  \/ (doRet.id >= 500 /\ doRet.id <= 599)))
             => /\ Len(doRequests) = cfCfg.MaxRetries + 1
                /\ doAttempt = cfCfg.MaxRetries
                /\ doRequests[Len(doRequests)].kind = "response"
                /\ doRequests[Len(doRequests)].status = doRet.id
                /\ doRetDetail.body = doRequests[Len(doRequests)].body
                /\ doRetDetail.body = Len(doRequests)

C12_Witness ==
    /\ doPc = "done"
    /\ doApi = "Do"
    /\ doMethod = "GET"
    /\ cfCfg.MaxRetries = 2
    /\ Len(doRequests) = 3
    /\ doRequests[1].status = 429
    /\ doRequests[2].status = 408
    /\ doRequests[3].status = 503
    /\ doRet = ErrOf("HTTPStatusError", 503)
    /\ doRetDetail.body = 3

\* A response whose status is outside 2xx and is not 408, 429 or 5xx.
HasTerminalStatus(resp) ==
    /\ resp.kind = "response"
    /\ ~Is2xx(resp)
    /\ ~HasRetryableStatus(resp)

\* C13: a non-2xx response whose status is not 408, 429 or 5xx is never
\* retried: it is the last request of the call, no sleep follows it, and the
\* call returns an HTTPStatusError with that status and that raw body.
C13_TerminalStatusNotRetried ==
    \A i \in 1 .. Len(doRequests) :
        HasTerminalStatus(doRequests[i])
            => /\ i = Len(doRequests)
               /\ doPc = "done"
               /\ Len(doSlept) = i - 1
               /\ doRet = ErrOf("HTTPStatusError", doRequests[i].status)
               /\ doRetDetail.body = i

C13_Witness ==
    /\ doPc = "done"
    /\ cfCfg.MaxRetries = 2
    /\ Len(doRequests) = 1
    /\ doRequests[1].status = 404
    /\ doSlept = <<>>
    /\ doRet = ErrOf("HTTPStatusError", 404)
    /\ doRetDetail.body = 1

\* The delay the Retry-After header asks for, <<delay, given>>.
RetryAfterAsked(header) ==
    CASE header.form = "seconds" /\ header.n <= 0 -> <<0, TRUE>>
      [] header.form = "seconds" /\ header.n > 0 ->
            <<header.n * TicksPerSecond, TRUE>>
      [] header.form = "date" /\ header.n < 0 -> <<0, TRUE>>
      [] header.form = "date" /\ header.n >= 0 ->
            <<header.n * TicksPerSecond, TRUE>>
      [] OTHER -> <<0, FALSE>>

ExpectedAPIErrorText(items) ==
    CASE items = <<>> -> "unknown API error"
      [] items = <<[Code |-> 10000, Message |-> "auth"]>> -> "10000:auth"
      [] items = <<[Code |-> 0, Message |-> "bad"]>> -> "bad"
      [] items = <<[Code |-> 1003, Message |-> "a"],
                   [Code |-> 0, Message |-> "b"]>> -> "1003:a, b"

\* C15: a 2xx response whose envelope has success = false is never retried:
\* it ends the call, no sleep follows it, and the error's text is built from
\* the error list: items joined by ", ", each "code:message", the message
\* alone when the code is 0, "unknown API error" for an empty list.
C15_UnsuccessfulEnvelopeNotRetried ==
    \A i \in 1 .. Len(doRequests) :
        (Is2xx(doRequests[i]) /\ doRequests[i].envelope = "unsuccessful")
            => /\ i = Len(doRequests)
               /\ doPc = "done"
               /\ Len(doSlept) = i - 1
               /\ doRet.kind = "apiError"
               /\ doRetDetail.msg = ExpectedAPIErrorText(doRequests[i].errors)

C15_Witness ==
    /\ doPc = "done"
    /\ cfCfg.MaxRetries = 2
    /\ Len(doRequests) = 1
    /\ Len(doRequests[1].errors) = 2
    /\ doRet.kind = "apiError"
    /\ doRetDetail.msg = "1003:a, b"

-----------------------------------------------------------------------------
(* Properties of pagination, cancellation and the retry budget *)

\* The requests of the call that were answered by a 2xx success envelope.
OkRequests ==
    {i \in 1 .. Len(doRequests) :
        Is2xx(doRequests[i]) /\ doRequests[i].envelope = "ok"}

\* ListZones has returned without error and the first page it received
\* reports more than one page.
ListZonesSawSeveralPages ==
    /\ doPc = "done"
    /\ doApi = "ListZones"
    /\ doRet = Nil
    /\ OkRequests # {}
    /\ doRequests[CHOOSE i \in OkRequests : \A j \in OkRequests : i <= j].pages > 1

TotalPagesSeen ==
    doRequests[CHOOSE i \in OkRequests : \A j \in OkRequests : i <= j].pages

RECURSIVE ConcatResults(_, _)
\* The results of the successful requests from index i on, in order.
ConcatResults(requests, i) ==
    IF i > Len(requests) THEN <<>>
    ELSE (IF Is2xx(requests[i]) /\ requests[i].envelope = "ok"
          THEN requests[i].result ELSE <<>>)
         \o ConcatResults(requests, i + 1)

\* C16: when the first response's result_info reports total_pages = P > 1,
\* ListZones issues exactly P successful page requests and returns the
\* concatenation of every page's entries in page order.
C16_ListZonesFetchesEveryPage ==
    ListZonesSawSeveralPages
        => /\ Cardinality(OkRequests) = TotalPagesSeen
           /\ Len(ListZonesReturn.zones) = TotalPagesSeen
           /\ ListZonesReturn.zones = ConcatResults(doRequests, 1)

\* C17: the page requests of one ListZones call are issued one after the
\* other in ascending page order: for every p < P the request for page p + 1
\* follows the response for page p and carries page = p + 1 in its query.
C17_PagesRequestedInOrder ==
    ListZonesSawSeveralPages
        => \A p \in 1 .. TotalPagesSeen - 1 :
             \E i \in OkRequests, j \in 1 .. Len(doRequests) :
                /\ i < j
                /\ doRequests[j].page = p + 1

\* C18: a successful response without pagination metadata is returned
\* directly: it is the last request of the call (the only one when it answers
\* the first), the call returns nil and the caller's target holds exactly
\* that response's result.
C18_UnpaginatedReturnedDirectly ==
    \A i \in 1 .. Len(doRequests) :
        (Is2xx(doRequests[i]) /\ doRequests[i].envelope = "ok"
            /\ doRequests[i].pages = 0)
            => /\ i = Len(doRequests)
               /\ doPc = "done"
               /\ doRet = Nil
               /\ Cardinality(OkRequests) = 1
               /\ ~doOutNil =>
                    doOut = [written |-> TRUE, result |-> doRequests[i].result]
               /\ doApi = "ListZones" =>
                    ListZonesReturn =
                        [zones |-> doRequests[i].result, err |-> Nil]

C18_Witness ==
    /\ doPc = "done"
    /\ doApi = "Do"
    /\ doMethod = "GET"
    /\ ~doOutNil
    /\ cfCfg.MaxRetries = 2
    /\ Len(doRequests) = 1
    /\ doRequests[1].envelope = "ok"
    /\ doRequests[1].pages = 0
    /\ doRet = Nil
    /\ doOut = [written |-> TRUE, result |-> <<1>>]

\* C19: once ctx is cancelled at a backoff sleep, the call ends there with the
\* cancellation error and goes on to no further transport request.
C19_CancelledSleepEndsCall ==
    [][(doCtxDone /\ doPc = "sleep")
          => /\ doPc' = "done"
             /\ doRet' = Canceled
             /\ doRequests' = doRequests]_vars

\* C20: retries are bounded: one call issues at most MaxRetries + 1 transport
\* requests and at most MaxRetries sleeps, one sleep per failed request
\* whether it failed in the transport or by a retryable status.
C20_RetriesBounded ==
    /\ Len(doRequests) <= cfCfg.MaxRetries + 1
    /\ Len(doSlept) <= cfCfg.MaxRetries
    /\ Len(doSlept) <= Len(doRequests)
    /\ Cardinality({i \in 1 .. Len(doRequests) :
            doRequests[i].kind = "transport"
            \/ HasRetryableStatus(doRequests[i])}) <= cfCfg.MaxRetries + 1

C20_Witness ==
    /\ doPc = "done"
    /\ cfCfg.MaxRetries = 2
    /\ Len(doRequests) = 3
    /\ doRequests[1].kind = "transport"
    /\ doRequests[2].status = 503
    /\ doRequests[3].kind = "transport"
    /\ Len(doSlept) = 2
    /\ doRet = ErrOf("transport", 3)

-----------------------------------------------------------------------------
(* Properties of concurrent calls *)

FailedRetryably(resp) == resp.kind = "transport" \/ HasRetryableStatus(resp)

\* What a call that ends on `resp`, its n-th request, returns.
ReturnFor(resp, n) ==
    IF resp.kind = "transport" THEN ErrOf("transport", n)
    ELSE IF ~Is2xx(resp) THEN ErrOf("HTTPStatusError", resp.status)
    ELSE Nil

\* The course of one call as its own responses and budget decide it.
DecidedByOwnResponses(call, cfg) ==
    LET n == Len(call.requests)
    IN  /\ n <= cfg.MaxRetries + 1
        /\ \A i \in 1 .. n - 1 : FailedRetryably(call.requests[i])
        /\ Len(call.slept) = call.attempt + (IF call.pc = "sleep" THEN 1 ELSE 0)
        /\ call.pc = "send" => (n = call.attempt /\ call.ret = Nil)
        /\ call.pc = "sleep" => FailedRetryably(call.requests[n])
        /\ call.pc = "done" =>
             /\ n = call.attempt + 1
             /\ FailedRetryably(call.requests[n]) => n = cfg.MaxRetries + 1
             /\ call.ret = ReturnFor(call.requests[n], n)

\* C21: two calls of Do running concurrently on one Client are independent:
\* the requests each issues and what each returns are decided by the
\* responses to its own requests and its own budget of MaxRetries retries,
\* and no step of either call changes the Client's configuration.
C21_ConcurrentCallsIndependent ==
    /\ [](ccCalls # <<>> =>
            \A c \in Calls : DecidedByOwnResponses(ccCalls[c], ccCfg))
    /\ [][ccCfg' = ccCfg]_vars

C21_Witness ==
    /\ ccCalls # <<>>
    /\ ccCfg.MaxRetries = 2
    /\ ccCalls[1].pc = "done"
    /\ Len(ccCalls[1].requests) = 3
    /\ ccCalls[1].ret = ErrOf("HTTPStatusError", 503)
    /\ ccCalls[2].pc = "done"
    /\ Len(ccCalls[2].requests) = 2
    /\ ccCalls[2].requests[1].kind = "transport"
    /\ ccCalls[2].ret = Nil

-----------------------------------------------------------------------------
(* Properties of Scope.PathPrefix *)

\* C22: PathPrefix succeeds for a scope of kind accounts or zones with a
\* non-empty ID and returns "<kind>/<path-escaped ID>": "accounts/acc-1" for
\* AccountScope("acc-1"), "zones/zone-1" for ZoneScope("zone-1"); a "/" or a
\* blank inside the ID is escaped; the result is a function of the scope.
C22_PathPrefixOfValidScope ==
    (scopePc = "done" /\ scope.Kind \in {"accounts", "zones"}
        /\ Len(scope.ID) > 0)
        => /\ scopeOut.err = Nil
           /\ scopeOut = PathPrefix(scope)
           /\ (scopeIn.ctor = "AccountScope"
               /\ scopeIn.id = <<"a", "c", "c", "-", "1">>)
                 => scopeOut.prefix = "accounts/acc-1"
           /\ (scopeIn.ctor = "ZoneScope"
               /\ scopeIn.id = <<"z", "o", "n", "e", "-", "1">>)
                 => scopeOut.prefix = "zones/zone-1"
           /\ (scopeIn.ctor = "ZoneScope"
               /\ scopeIn.id = <<" ", "a", "/", "b", " ">>)
                 => scopeOut.prefix = "zones/a%2Fb"
           /\ (scope.Kind = "accounts" /\ scope.ID = <<"x", " ">>)
                 => scopeOut.prefix = "accounts/x%20"

C22_Witness ==
    /\ scopePc = "done"
    /\ scopeIn.ctor = "ZoneScope"
    /\ scopeIn.id = <<" ", "a", "/", "b", " ">>
    /\ scopeOut = [prefix |-> "zones/a%2Fb", err |-> Nil]

\* C23: PathPrefix returns a validation error for every Scope value, however
\* it was built, whose Kind is outside {accounts, zones} or whose ID is empty
\* after trimming whitespace.
C23_PathPrefixValidates ==
    (scopePc = "done"
        /\ (scope.Kind \notin {"accounts", "zones"}
            \/ \A i \in 1 .. Len(scope.ID) : scope.ID[i] \in {" ", "\t"}))
        => scopeOut.err # Nil

-----------------------------------------------------------------------------
(* Properties of ZoneIDByName, of the requests of a call and of the target *)

\* C24: ZoneIDByName: when the request succeeds but the result list holds
\* no zone, the call fails with an error matching ErrZoneNotFound; when the
\* list is not empty it returns the ID of the first zone.
C24_ZoneIDByNameFirstOrNotFound ==
    (doPc = "done" /\ doApi = "ZoneIDByName" /\ doRet = Nil
        /\ doRequests # <<>>)
        => LET n == Len(doRequests)
               last == doRequests[n]
           IN  /\ Is2xx(last)
               /\ (last.envelope = "null" \/ last.count = 0)
                    => ZoneIDByNameReturn =
                         [id |-> 0, err |-> ErrOf("ErrZoneNotFound", 0)]
               /\ (last.envelope = "ok" /\ last.count > 0)
                    => ZoneIDByNameReturn = [id |-> n, err |-> Nil]

C24_Witness ==
    /\ doPc = "done"
    /\ doApi = "ZoneIDByName"
    /\ Len(doRequests) = 2
    /\ doRequests[2].envelope = "ok"
    /\ doRequests[2].count = 2
    /\ doRequests[2].result = <<2, 12>>
    /\ ZoneIDByNameReturn = [id |-> 2, err |-> Nil]

\* C29: the request body is serialized once before the first attempt and a
\* fresh request is built per attempt: every attempt of one call sends the
\* same method, URL, Authorization and Content-Type headers and the same
\* bytes of body, those of the serialized requestBody.
C29_SameRequestEveryAttempt ==
    \A i \in 1 .. Len(doRequests) :
        /\ doRequests[i].req = doRequests[1].req
        /\ doRequests[i].req.method = doMethod
        /\ doRequests[i].req.authorization = "Bearer tk"
        /\ doRequests[i].req.contentType = "application/json"
        /\ doRequests[i].req.body =
             (IF doArgs.body = "object" THEN "{\"k\":\"v\"}" ELSE "")
        /\ doRequests[i].req.url =
             (IF doApi = "ZoneIDByName"
              THEN "https://api.cloudflare.com/client/v4/zones?name=x"
              ELSE "https://api.cloudflare.com/client/v4/zones")

C29_Witness ==
    /\ doPc = "done"
    /\ doApi = "Do"
    /\ doMethod = "POST"
    /\ Len(doRequests) = 3
    /\ doRequests[3].req.body = "{\"k\":\"v\"}"
    /\ doRequests[3].kind = "response"
    /\ doRequests[1].kind = "transport"

\* C30: when Do ends on a 2xx response with success = true and the target
\* is nil or the result is empty or null, it returns nil and leaves the
\* target unmodified; the target is written only by the response that ends
\* the call, a 2xx success = true response with a non-null result given a
\* non-nil target, never while attempts are retried nor on a call that ends
\* in a transport failure, a non-2xx status or an unsuccessful envelope.
C30_TargetWrittenOnlyOnSuccess ==
    /\ doPc \in {"send", "sleep"} => doOut = Untouched
    /\ doPc = "done" /\ doRequests # <<>> /\ doSleepErr = Nil =>
         LET last == doRequests[Len(doRequests)]
         IN  /\ (Is2xx(last) /\ last.envelope \in {"ok", "null"}
                   /\ (doOutNil \/ last.envelope = "null"))
                  => (doRet = Nil /\ doOut = Untouched)
             /\ doOut # Untouched
                  => /\ Is2xx(last)
                     /\ last.envelope \in {"ok", "badResult"}
                     /\ ~doOutNil
                     /\ last.result # <<>> \/ last.count = 0
             /\ doRet = Nil /\ doOut # Untouched
                  => doOut = [written |-> TRUE, result |-> last.result]
    /\ doPc = "done" /\ doSleepErr # Nil => doOut = Untouched

C30_Witness ==
    /\ doPc = "done"
    /\ doRet = Nil
    /\ Len(doRequests) = 2
    /\ doRequests[1].status = 503
    /\ doRequests[2].envelope = "null"
    /\ ~doOutNil
    /\ doOut = Untouched

-----------------------------------------------------------------------------
(* Properties of vault *)

\* The last vault call got an HTTP response.
VaultGotResponse == vaultCall.requests # <<>> /\ vaultCall.status # 0

\* C25: ReadKVv2 returns an error matching ErrSecretNotFound when the server
\* answers 404, and an error not matching it for every other non-2xx status.
C25_NotFoundOnlyOn404 ==
    (vaultCall.op = "ReadKVv2" /\ VaultGotResponse) =>
        /\ vaultCall.status = 404 => vaultCall.ret.kind = "ErrSecretNotFound"
        /\ (vaultCall.status # 404
            /\ (vaultCall.status < 200 \/ vaultCall.status >= 300)) =>
               /\ vaultCall.ret # Nil
               /\ vaultCall.ret.kind # "ErrSecretNotFound"

\* A read was answered 403 and returned an error that is not ErrSecretNotFound.
C25_Witness ==
    /\ vaultCall.op = "ReadKVv2"
    /\ vaultCall.status = 403
    /\ vaultCall.ret # Nil
    /\ vaultCall.ret.kind # "ErrSecretNotFound"

\* The URL path the last vault call addressed, "" when it addressed none.
VaultCallPath ==
    IF vaultCall.requests = <<>> THEN ""
    ELSE "/v1/" \o TextOf(TrimSlashes(TrimSpace(vaultCall.mount))) \o "/data/"
         \o TextOf(TrimSlashes(TrimSpace(vaultCall.path)))

\* C26: against the storing server, a ReadKVv2 of a path returns the
\* credentials d of the WriteKVv2 served before it at that path, and a
\* ReadKVv2 of a path never written fails with ErrSecretNotFound.
C26_WriteThenReadReturnsData ==
    (vaultCall.op = "ReadKVv2" /\ vaultCall.served) =>
        IF VaultCallPath \in DOMAIN vaultWritten
        THEN /\ vaultCall.ret = Nil
             /\ vaultCall.data = vaultWritten[VaultCallPath]
        ELSE vaultCall.ret.kind = "ErrSecretNotFound"

\* C27: WriteKVv2 and ReadKVv2 send exactly one HTTP request in a call that
\* has a mount and a path, whatever the outcome, and none otherwise.
C27_OneRequestPerCall ==
    vaultCall.op # "none" =>
        IF vaultCall.ret.kind \in {"secretsEngineEmpty", "secretPathEmpty"}
        THEN vaultCall.requests = <<>>
        ELSE Len(vaultCall.requests) = 1

\* A write was answered 500: it sent one request and returned the error.
C27_Witness ==
    /\ vaultCall.op = "WriteKVv2"
    /\ vaultCall.status = 500
    /\ vaultCall.ret # Nil
    /\ Len(vaultCall.requests) = 1

-----------------------------------------------------------------------------
(* Properties of construction *)

\* cloudflare.New and vault.New have been called, respectively.
CloudflareNewCalled == doPc # "idle"
VaultNewCalled == vaultClient.built \/ vaultClient.err # Nil

-----------------------------------------------------------------------------
(* Properties of AccessService *)

\* The scope given to AccessService.Do has an unsupported kind or an empty ID.
AccessScopeInvalid ==
    \/ accIn.scope.Kind \notin {"accounts", "zones"}
    \/ accIn.scope.ID = <<>>

\* The endpoint given to AccessService.Do is empty once white space around it
\* and the leading slash are trimmed.
AccessEndpointEmpty ==
    LET trimmed == TrimSpace(accIn.endpoint)
    IN  trimmed = <<>> \/ trimmed = <<"/">>

\* C31: AccessService.Do returns an error and sends no HTTP request when the
\* scope is invalid or the endpoint is empty after trimming; otherwise it
\* goes on to the client's call.
C31_AccessDoRejectsBeforeSending ==
    (doPc \in {"send", "sleep", "done"}
        /\ (AccessScopeInvalid \/ AccessEndpointEmpty)) =>
        /\ doPc = "done"
        /\ doRet # Nil
        /\ doRequests = <<>>

\* AccessService.Do returned an error for a valid scope with the endpoint
\* " / " and sent nothing.
C31_Witness ==
    /\ doPc = "done"
    /\ accIn.scope = [Kind |-> "zones", ID |-> <<"x">>]
    /\ accIn.endpoint = <<" ", "/", " ">>
    /\ doRet # Nil
    /\ doRequests = <<>>

-----------------------------------------------------------------------------
(* Properties of cloudflare.Client.Do: termination and the retry delay *)

\* C32: provided every transport call and every sleep returns, each call of
\* the client eventually returns.
C32_DoTerminates == <>(doPc \in {"done", "noClient"})

\* A call returned after it had used its whole retry budget of at least one
\* retry, sleeping before each.
C32_Witness ==
    /\ doPc = "done"
    /\ cfCfg.MaxRetries >= 1
    /\ Len(doRequests) = cfCfg.MaxRetries + 1
    /\ Len(doSlept) = cfCfg.MaxRetries

C36_NoRetriesMeansOneRequest ==
    (cfOpt.maxRetries <= 0 /\ doPc \in {"send", "sleep", "done"}) =>
        /\ cfCfg.MaxRetries = 0
        /\ Len(doRequests) <= 1
        /\ doSlept = <<>>
        /\ doPc # "sleep"
        /\ Len(doRequests) = 1 => doPc = "done"

\* A Client built with retry count 0 answered 503 once and returned the error.
C36_Witness ==
    /\ cfOpt.maxRetries = 0
    /\ doPc = "done"
    /\ Len(doRequests) = 1
    /\ doRequests[1].status = 503
    /\ doRet = ErrOf("HTTPStatusError", 503)

\* The body of the response could not be read, or it is a 2xx body that is
\* not an envelope.
Unreadable(resp) ==
    \/ resp.kind = "readError"
    \/ (Is2xx(resp) /\ resp.envelope = "garbled")

\* C37: a response whose body cannot be read, or whose 2xx body is not a
\* decodable envelope, ends the call: it is the last request, no sleep
\* follows it and the call returns that error.
C37_UnreadableBodyIsTerminal ==
    \A i \in 1 .. Len(doRequests) :
        Unreadable(doRequests[i]) =>
            /\ i = Len(doRequests)
            /\ Len(doSlept) = i - 1
            /\ doPc = "done"
            /\ doRet = IF doRequests[i].kind = "readError"
                       THEN ErrOf("readBody", 0)
                       ELSE ErrOf("decodeEnvelope", 0)

\* A GET with retries left was retried once after a 503, then failed to read
\* the body and returned.
C37_Witness ==
    /\ doMethod = "GET"
    /\ cfCfg.MaxRetries = 2
    /\ Len(doRequests) = 2
    /\ doRequests[1].status = 503
    /\ doRequests[2].kind = "readError"
    /\ doPc = "done"
    /\ doRet = ErrOf("readBody", 0)

-----------------------------------------------------------------------------
(* Properties of SleepContext and of the delay without jitter *)

\* ctx was cancelled before the delay elapsed.
CancelledBeforeElapsed == slCancelAt >= 0 /\ slCancelAt < slDelay

\* C35: SleepContext returns nil at once for a delay <= 0, cancelled context
\* or not; for a delay > 0 it returns the context's error if the context was
\* cancelled before the delay elapsed and nil otherwise, and the timer is
\* stopped when it returns.
C35_SleepContextOutcome ==
    slPc = "done" =>
        IF slDelay <= 0
        THEN slRet = Nil /\ slNow = 0 /\ slTimer = "none"
        ELSE /\ slRet = (IF CancelledBeforeElapsed THEN Canceled ELSE Nil)
             /\ slTimer = "stopped"

\* The delay for the inputs as the code normalises them.
EffectiveMaxDelay == IF boIn.maxDelay <= 0 THEN defaultMaxDelay ELSE boIn.maxDelay

\* C38: with jitter disabled the delay d of every attempt satisfies
\* 0 < d <= maxDelay, maxDelay being 30 s when the given one is not positive.
C38_NoJitterDelayWithinBounds ==
    boPc = "done" => (0 < boOut.plain /\ boOut.plain <= EffectiveMaxDelay)

====================================================================
